---- MODULE Spec2Model ----
(***************************************************************************)
(* Feed ingestion pipeline of subcurrent-astro: the orchestrator           *)
(* (src/utils/fetchFeeds.ts), the Feed Processor getFeedContent with its   *)
(* Fetch Strategy getFeedXML, the entry normalisation helpers and the      *)
(* Collection Store (one JSON file per entry under src/content/feeds).     *)
(*                                                                         *)
(* Strings are TLA+ strings; a character is a string of length one.        *)
(* Instants are integers; the clock `now` advances by one each time the    *)
(* Feed Processor is invoked.                                              *)
(***************************************************************************)
EXTENDS Integers, Sequences, FiniteSets, TLC

(***************************************************************************)
(* Bounds of the model.                                                    *)
(***************************************************************************)
\* how many times the orchestrator is run (each scheduled run is a new process)
MaxRuns == 2

\* how many fragments of markup a description is made of, at most
MaxFragments == 2

\* how many times the notifier is run (each scheduled run is a new process)
MaxInvocations == 2

(***************************************************************************)
(* String helpers (JavaScript string primitives).                          *)
(***************************************************************************)
Min(a, b) == IF a <= b THEN a ELSE b

CharAt(s, i) == SubSeq(s, i, i)

\* s.substring(0, n)
Take(s, n) == SubSeq(s, 1, Min(n, Len(s)))

\* s.substring(n)
Drop(s, n) == SubSeq(s, n + 1, Len(s))

\* s.startsWith(p)
StartsWith(s, p) == Len(p) <= Len(s) /\ SubSeq(s, 1, Len(p)) = p

SetMin(S) == CHOOSE x \in S : \A y \in S : x <= y
SetMax(S) == CHOOSE x \in S : \A y \in S : x >= y

\* the concatenation of Piece(lo), ..., Piece(hi)
RECURSIVE ConcatRange(_, _, _)
ConcatRange(Piece(_), lo, hi) ==
  IF lo > hi THEN ""
  ELSE IF lo = hi THEN Piece(lo)
  ELSE LET mid == (lo + hi) \div 2
       IN ConcatRange(Piece, lo, mid) \o ConcatRange(Piece, mid + 1, hi)

\* 1-based position of the first occurrence of p in s at or after from, 0 if none
IndexFrom(s, p, from) ==
  LET at == {i \in from..(Len(s) - Len(p) + 1) : SubSeq(s, i, i + Len(p) - 1) = p}
  IN IF at = {} THEN 0 ELSE SetMin(at)

\* s.includes(p)
Includes(s, p) == IndexFrom(s, p, 1) # 0

\* s.replace(/p/g, r) for a literal pattern p
RECURSIVE ReplaceAll(_, _, _)
ReplaceAll(s, p, r) ==
  LET i == IndexFrom(s, p, 1)
  IN IF i = 0 THEN s
     ELSE SubSeq(s, 1, i - 1) \o r \o ReplaceAll(Drop(s, i + Len(p) - 1), p, r)

\* the characters \s matches
IsSpace(c) == c \in {" ", "\t", "\n", "\r"}

\* s.trim()
Trim(s) ==
  LET inked == {i \in 1..Len(s) : ~IsSpace(CharAt(s, i))}
  IN IF inked = {} THEN "" ELSE SubSeq(s, SetMin(inked), SetMax(inked))

\* s.replace(/\s+/g, ' '): the first character of a run of spaces becomes ' ',
\* the others go
CollapseWhitespace(s) ==
  LET Piece(i) ==
        IF ~IsSpace(CharAt(s, i)) THEN CharAt(s, i)
        ELSE IF i > 1 /\ IsSpace(CharAt(s, i - 1)) THEN "" ELSE " "
  IN ConcatRange(Piece, 1, Len(s))

\* s.replace(/<open>[^<close>]+<close>/g, r): the pattern of the tag regex
\* /<[^>]+>/g and of the entity regex /&[^;]+;/g.  A match cannot span a close
\* character, so each close character ends a segment that begins after the
\* close character before it; the segment's match starts at its first open
\* character and needs one character at least between the two.
ReplaceDelimited(s, open, close, r) ==
  LET Closes == {k \in 1..Len(s) : CharAt(s, k) = close}
      Piece(i) ==
        LET after == {k \in Closes : k >= i}
            before == {k \in Closes : k < i}
            j == IF after = {} THEN 0 ELSE SetMin(after)
            a == IF before = {} THEN 0 ELSE SetMax(before)
            opens == {k \in (a + 1)..(j - 1) : CharAt(s, k) = open}
            p == IF opens = {} THEN 0 ELSE SetMin(opens)
        IN IF j = 0 \/ p = 0 \/ j < p + 2 \/ i < p THEN CharAt(s, i)
           ELSE IF i = p THEN r ELSE ""
  IN ConcatRange(Piece, 1, Len(s))

\* s.lastIndexOf(c), as a 1-based position, 0 if none
LastIndexOf(s, c) ==
  LET at == {i \in 1..Len(s) : CharAt(s, i) = c}
  IN IF at = {} THEN 0 ELSE SetMax(at)

LowerLetters == "abcdefghijklmnopqrstuvwxyz"
UpperLetters == "ABCDEFGHIJKLMNOPQRSTUVWXYZ"
Digits == "0123456789"

\* the lower-case letter of each upper-case letter, as a table
LowerOf ==
  [c \in {CharAt(UpperLetters, i) : i \in 1..Len(UpperLetters)} |->
     CharAt(LowerLetters, IndexFrom(UpperLetters, c, 1))] @@ << >>

\* c.toLowerCase() for one ASCII character
LowerChar(c) == IF c \in DOMAIN LowerOf THEN LowerOf[c] ELSE c

\* s.toLowerCase()
ToLowerCase(s) ==
  LET Piece(i) == LowerChar(CharAt(s, i))
  IN ConcatRange(Piece, 1, Len(s))

\* the characters [a-z0-9] matches
SlugChars ==
  {CharAt(LowerLetters, i) : i \in 1..Len(LowerLetters)}
    \cup {CharAt(Digits, i) : i \in 1..Len(Digits)}

\* [a-z0-9]
IsSlugChar(c) == c \in SlugChars

\* s.replace(/[^a-z0-9]+/g, '-'): the first character of a run of other
\* characters becomes '-', the others go
DashNonSlugRuns(s) ==
  LET Piece(i) ==
        IF IsSlugChar(CharAt(s, i)) THEN CharAt(s, i)
        ELSE IF i > 1 /\ ~IsSlugChar(CharAt(s, i - 1)) THEN "" ELSE "-"
  IN ConcatRange(Piece, 1, Len(s))

\* s.replace(/(^-|-$)/g, '')
StripEdgeDashes(s) ==
  LET a == IF StartsWith(s, "-") THEN Drop(s, 1) ELSE s
  IN IF Len(a) > 0 /\ CharAt(a, Len(a)) = "-" THEN Take(a, Len(a) - 1) ELSE a

(***************************************************************************)
(* Buffer.from(url).toString('base64url') for ASCII text.                  *)
(***************************************************************************)
\* the ASCII characters 32..95 and 97..126, in code order (96, the backquote,
\* occurs in no URL)
AsciiFrom32 ==
  " !\"#$%&'()*+,-./0123456789:;<=>?@ABCDEFGHIJKLMNOPQRSTUVWXYZ[\\]^_"
AsciiFrom97 == "abcdefghijklmnopqrstuvwxyz{|}~"

\* the byte of each ASCII character, as a table
CodeOf ==
  [c \in {CharAt(AsciiFrom32, i) : i \in 1..Len(AsciiFrom32)} |->
     31 + IndexFrom(AsciiFrom32, c, 1)]
  @@ [c \in {CharAt(AsciiFrom97, i) : i \in 1..Len(AsciiFrom97)} |->
        96 + IndexFrom(AsciiFrom97, c, 1)]

\* the byte of an ASCII character
CharCode(c) == CodeOf[c]

Base64UrlAlphabet ==
  "ABCDEFGHIJKLMNOPQRSTUVWXYZabcdefghijklmnopqrstuvwxyz0123456789-_"

Sextet(n) == CharAt(Base64UrlAlphabet, (n % 64) + 1)

RECURSIVE Base64Url(_)
Base64Url(s) ==
  IF Len(s) = 0 THEN ""
  ELSE IF Len(s) = 1
       THEN LET n == CharCode(CharAt(s, 1)) * 16
            IN Sextet(n \div 64) \o Sextet(n)
  ELSE IF Len(s) = 2
       THEN LET n == (CharCode(CharAt(s, 1)) * 256 + CharCode(CharAt(s, 2))) * 4
            IN Sextet(n \div 4096) \o Sextet(n \div 64) \o Sextet(n)
  ELSE LET n == CharCode(CharAt(s, 1)) * 65536 + CharCode(CharAt(s, 2)) * 256
                + CharCode(CharAt(s, 3))
       IN Sextet(n \div 262144) \o Sextet(n \div 4096) \o Sextet(n \div 64) \o Sextet(n)
          \o Base64Url(Drop(s, 3))

(***************************************************************************)
(* Date texts.  A date text is a record: fmt says how it is written         *)
(* ("rfc2822", "iso", "garbage" for a text Date cannot parse, "empty" for   *)
(* the empty string) and t is the instant a well-formed text denotes.       *)
(***************************************************************************)
EmptyDate == [fmt |-> "empty", t |-> 0]
GarbageDate == [fmt |-> "garbage", t |-> 0]
Rfc2822(t) == [fmt |-> "rfc2822", t |-> t]

\* !isNaN(new Date(dateStr).getTime())
IsValidDate(dateStr) == dateStr.fmt \in {"rfc2822", "iso"}

\* the date written in a form Date cannot read back
ToLocaleDateString(t) == [fmt |-> "garbage", t |-> t]

\* new Date(t).toISOString()
ToISOString(t) == [fmt |-> "iso", t |-> t]

\* parseDate(dateStr), evaluated at instant clock
parseDate(dateStr, clock) ==
  IF dateStr.fmt = "empty" THEN ToISOString(clock)
  ELSE IF IsValidDate(dateStr) THEN ToISOString(dateStr.t)
  ELSE ToISOString(clock)

(***************************************************************************)
(* Helpers of feedCollector.ts.                                            *)
(***************************************************************************)
\* createSafeFilename(url, title)
createSafeFilename(url, title) ==
  LET urlHash == Take(Base64Url(url), 8)
      safeTitle == Take(StripEdgeDashes(DashNonSlugRuns(ToLowerCase(title))), 50)
  IN safeTitle \o "-" \o urlHash \o ".json"

\* str.replace(/<!\[CDATA\[(.*?)\]\]>/g, '$1')
RECURSIVE UnwrapCDATA(_)
UnwrapCDATA(s) ==
  LET i == IndexFrom(s, "<![CDATA[", 1)
      j == IF i = 0 THEN 0 ELSE IndexFrom(s, "]]>", i + 9)
  IN IF i = 0 \/ j = 0 THEN s
     ELSE IF Includes(SubSeq(s, i + 9, j - 1), "\n")
          THEN SubSeq(s, 1, i) \o UnwrapCDATA(Drop(s, i))
          ELSE SubSeq(s, 1, i - 1) \o SubSeq(s, i + 9, j - 1) \o UnwrapCDATA(Drop(s, j + 2))

\* cleanXMLContent(str)
cleanXMLContent(str) ==
  IF str = "" THEN ""
  ELSE Trim(
         ReplaceAll(
           ReplaceAll(
             ReplaceAll(
               ReplaceAll(
                 ReplaceAll(ReplaceDelimited(UnwrapCDATA(str), "<", ">", ""),
                            "&amp;", "&"),
                 "&lt;", "<"),
               "&gt;", ">"),
             "&quot;", "\""),
           "&#39;", "'"))

\* maxLength of generateTitleFromDescription
maxLength == 55

\* generateTitleFromDescription(description)
generateTitleFromDescription(description) ==
  IF description = "" THEN ""
  ELSE LET cleanText ==
             Trim(CollapseWhitespace(
               ReplaceDelimited(ReplaceDelimited(description, "<", ">", ""), "&", ";", " ")))
           truncated == Take(cleanText, maxLength)
           \* 0-based index of the last space, -1 if none
           lastSpace == LastIndexOf(truncated, " ") - 1
       IN IF cleanText = "" THEN ""
          ELSE IF Len(cleanText) <= maxLength THEN cleanText
          ELSE IF lastSpace * 10 > maxLength * 7
               THEN Take(truncated, lastSpace) \o "..."
               ELSE truncated \o "..."

\* extractContent(entry, pattern), given the text the pattern captures ("" when
\* the pattern does not match)
extractContent(captured) == cleanXMLContent(captured)

\* parseEntry(entry, isRSS).  An item block is given by the texts its first
\* title, link, date and description elements hold ("" when there is none; for
\* an Atom entry, link is the href attribute of its link element).
parseEntry(item, isRSS) ==
  [title |-> extractContent(item.title),
   link |-> IF isRSS THEN extractContent(item.link) ELSE item.link,
   published |-> item.published,
   description |-> extractContent(item.description)]

(***************************************************************************)
(* parseEntry: the image URL.  The patterns are read on entries without    *)
(* line breaks whose attribute values hold no '>'.                         *)
(***************************************************************************)
\* the positions at which p occurs in s
Occurrences(s, p) ==
  {i \in 1..(Len(s) - Len(p) + 1) : SubSeq(s, i, i + Len(p) - 1) = p}

\* the position after i of the '>' that ends the run [^>]* begun at i, or
\* Len(s) + 1 when none follows
RunEnd(s, i) ==
  LET e == IndexFrom(s, ">", i) IN IF e = 0 THEN Len(s) + 1 ELSE e

\* the position of the quote that closes the value [^"]+ begun at v, before
\* position lim; 0 when the value is empty or not closed there
ValueClose(s, v, lim) ==
  LET c == IndexFrom(s, "\"", v) IN IF c > v /\ c < lim THEN c ELSE 0

\* where  open[^>]+attrEq([^"]+)"  matches in the tag begun at p: the
\* positions of attrEq, of which the greedy [^>]+ takes the last
AttrAt(s, low, open, attrEq, p) ==
  {q \in (p + Len(open) + 1)..(RunEnd(s, p + Len(open)) - 1) :
     /\ q \in Occurrences(low, attrEq)
     /\ ValueClose(s, q + Len(attrEq), RunEnd(s, p + Len(open))) # 0}

\* the capture of the first match of  open[^>]+attrEq([^"]+)"  in s, "" when
\* there is none; low is the text the pattern is matched on (s itself, or s
\* in lower case for a pattern with the flag i); closed says that [^>]*> ends
\* the pattern
AttrCapture(s, low, open, attrEq, closed) ==
  LET hits == {p \in Occurrences(low, open) :
                 /\ AttrAt(s, low, open, attrEq, p) # {}
                 /\ closed => RunEnd(s, p + Len(open)) <= Len(s)}
  IN IF hits = {} THEN ""
     ELSE LET p == SetMin(hits)
              q == SetMax(AttrAt(s, low, open, attrEq, p))
              v == q + Len(attrEq)
          IN SubSeq(s, v, ValueClose(s, v, RunEnd(s, p + Len(open))) - 1)

\* entry.match(/<media:content[^>]+url="([^"]+)"[^>]*>/)
mediaContentMatch(entry) == AttrCapture(entry, entry, "<media:content", "url=\"", TRUE)

\* entry.match(/<media:thumbnail[^>]+url="([^"]+)"[^>]*>/)
mediaThumbnailMatch(entry) == AttrCapture(entry, entry, "<media:thumbnail", "url=\"", TRUE)

\* where  type="image\/[^"]+"  matches in s from position r on, before lim
ImageTypeAt(s, r, lim) ==
  /\ r \in Occurrences(s, "type=\"image/")
  /\ ValueClose(s, r + 12, lim) # 0

\* entry.match(/<enclosure[^>]+url="([^"]+)"[^>]+type="image\/[^"]+"[^>]*>/):
\* the url attribute comes before the type attribute of the same tag
enclosureMatch(entry) ==
  LET open == "<enclosure"
      End(p) == RunEnd(entry, p + Len(open))
      Urls(p) == {q \in AttrAt(entry, entry, open, "url=\"", p) :
                    LET c == ValueClose(entry, q + 5, End(p))
                    IN \E r \in (c + 2)..(End(p) - 1) : ImageTypeAt(entry, r, End(p))}
      hits == {p \in Occurrences(entry, open) : Urls(p) # {} /\ End(p) <= Len(entry)}
  IN IF hits = {} THEN ""
     ELSE LET p == SetMin(hits)
              q == SetMax(Urls(p))
          IN SubSeq(entry, q + 5, ValueClose(entry, q + 5, End(p)) - 1)

\* entry.match(/<image><url>(.*?)<\/url><\/image>/)
imageTagMatch(entry) ==
  LET i == IndexFrom(entry, "<image><url>", 1)
      j == IF i = 0 THEN 0 ELSE IndexFrom(entry, "</url></image>", i + 12)
  IN IF j = 0 THEN "" ELSE SubSeq(entry, i + 12, j - 1)

\* entry.match(/<itunes:image[^>]+href="([^"]+)"[^>]*>/)
itunesImageMatch(entry) == AttrCapture(entry, entry, "<itunes:image", "href=\"", TRUE)

\* description.match(/<img[^>]+src="([^">]+)"/i)
imgMatch(description) ==
  AttrCapture(description, ToLowerCase(description), "<img", "src=\"", FALSE)

\* what /<(?:description|content|summary)[^>]*>(.*?)<\/(?:description|content|
\* summary)>/s captures in entry, "" when it does not match
DescriptionCapture(entry) ==
  LET opens == Occurrences(entry, "<description") \cup Occurrences(entry, "<content")
                 \cup Occurrences(entry, "<summary")
      closes == Occurrences(entry, "</description>") \cup Occurrences(entry, "</content>")
                  \cup Occurrences(entry, "</summary>")
      From(p) == RunEnd(entry, p + 1) + 1
      hits == {p \in opens : \E c \in closes : c >= From(p)}
  IN IF hits = {} THEN ""
     ELSE LET p == SetMin(hits)
          IN SubSeq(entry, From(p), SetMin({c \in closes : c >= From(p)}) - 1)

\* the image URL taken from the description before every other place
imageUrlDescriptionFirst(entry) ==
  LET description == extractContent(DescriptionCapture(entry))
  IN IF imgMatch(description) # "" THEN imgMatch(description)
     ELSE IF mediaContentMatch(entry) # "" THEN mediaContentMatch(entry)
     ELSE IF mediaThumbnailMatch(entry) # "" THEN mediaThumbnailMatch(entry)
     ELSE IF enclosureMatch(entry) # "" THEN enclosureMatch(entry)
     ELSE IF imageTagMatch(entry) # "" THEN imageTagMatch(entry)
     ELSE itunesImageMatch(entry)

\* parseEntry(entry, isRSS).imageUrl: each place is tried in turn and sets
\* imageUrl when it matches and imageUrl is still empty
imageUrl(entry) ==
  LET description == extractContent(DescriptionCapture(entry))
  IN IF mediaContentMatch(entry) # "" THEN mediaContentMatch(entry)
     ELSE IF mediaThumbnailMatch(entry) # "" THEN mediaThumbnailMatch(entry)
     ELSE IF enclosureMatch(entry) # "" THEN enclosureMatch(entry)
     ELSE IF imageTagMatch(entry) # "" THEN imageTagMatch(entry)
     ELSE IF itunesImageMatch(entry) # "" THEN itunesImageMatch(entry)
     ELSE IF description # "" THEN imgMatch(description)
     ELSE ""

(***************************************************************************)
(* Markup helpers.  The tag patterns of the collector and of the sanitizer *)
(* are read on text whose attribute values hold no '>' and end inside      *)
(* their tag, so that a match of '<name[^>]*attr=...[^>]*>' is the text    *)
(* from '<name' to the next '>'.                                           *)
(***************************************************************************)
\* the characters \w matches
WordChars ==
  {CharAt(LowerLetters, i) : i \in 1..Len(LowerLetters)}
    \cup {CharAt(UpperLetters, i) : i \in 1..Len(UpperLetters)}
    \cup {CharAt(Digits, i) : i \in 1..Len(Digits)} \cup {"_"}

IsWordChar(c) == c \in WordChars

\* the characters ["'] matches
QuoteChars == {"\"", "'"}

\* first position at or after from of a character of cs, 0 if none
IndexOfAny(s, cs, from) ==
  LET at == {i \in from..Len(s) : CharAt(s, i) \in cs}
  IN IF at = {} THEN 0 ELSE SetMin(at)

\* the match of  \\?("|')(.*?)\\?("|')  at position q of tag (right after
\* 'name='): ok when an opening quote is there and a quote follows it; value
\* is the lazy capture, which ends before the first quote and before a
\* backslash that precedes it; close is the position of the closing quote
QuotedValueAt(tag, q) ==
  LET open == IF q <= Len(tag) /\ CharAt(tag, q) = "\\" THEN q + 1 ELSE q
      close == IF open <= Len(tag) /\ CharAt(tag, open) \in QuoteChars
               THEN IndexOfAny(tag, QuoteChars, open + 1) ELSE 0
      last == IF close > open + 1 /\ CharAt(tag, close - 1) = "\\"
              THEN close - 2 ELSE close - 1
  IN [ok |-> close # 0,
      value |-> IF close = 0 THEN "" ELSE SubSeq(tag, open + 1, last),
      close |-> close]

\* where the greedy [^>]* of '<name[^>]*attr=' lets attr= begin in tag: the
\* last position, at or after from, at which attr= (any case) is followed by a
\* quoted value; 0 if none
LastQuotedAttr(tag, attrEq, from) ==
  LET low == ToLowerCase(tag)
      n == Len(attrEq)
      at == {p \in from..(Len(tag) - n) :
               SubSeq(low, p, p + n - 1) = attrEq /\ QuotedValueAt(tag, p + n).ok}
  IN IF at = {} THEN 0 ELSE SetMax(at)

\* the end of the run of word characters that begins after position k
WordEnd(tag, k) ==
  LET stops == {i \in (k + 1)..Len(tag) : ~IsWordChar(CharAt(tag, i))}
  IN IF stops = {} THEN Len(tag) ELSE SetMin(stops) - 1

(***************************************************************************)
(* preprocessHtmlSnippet of feedCollector.ts.                              *)
(***************************************************************************)
\* cleanUrl of the img and a callbacks: url.replace(/&quot;/g, '')
\* .replace(/\\"/g, '').replace(/["']+$/g, '').replace(/\/["']+/g, '/').  The
\* captured url holds no quote character, so only the first replacement acts.
SnippetCleanUrl(url) == ReplaceAll(ReplaceAll(url, "&quot;", ""), "\\\"", "")

\* the callback of /<img[^>]*src=\\?("|')(.*?)\\?("|')[^>]*>/gi on the text
\* from '<img' to the next '>': "" when the pattern does not match it
SnippetImgTag(tag) ==
  LET p == LastQuotedAttr(tag, "src=", 5)
  IN IF p = 0 THEN ""
     ELSE "<img src=\"" \o SnippetCleanUrl(QuotedValueAt(tag, p + 4).value) \o "\">"

RECURSIVE SnippetImgTags(_)
SnippetImgTags(s) ==
  LET i == IndexFrom(ToLowerCase(s), "<img", 1)
      j == IF i = 0 THEN 0 ELSE IndexFrom(s, ">", i + 4)
  IN IF i = 0 \/ j = 0 THEN s
     ELSE LET r == SnippetImgTag(SubSeq(s, i, j))
          IN IF r # "" THEN SubSeq(s, 1, i - 1) \o r \o SnippetImgTags(Drop(s, j))
             ELSE SubSeq(s, 1, i + 3) \o SnippetImgTags(Drop(s, i + 3))

\* cleanAttrs: the matches of /\s(\w+)=\\?("|')(.*?)\\?("|')/g in the tag at or
\* after from, those that start with ' href=' left out, each rewritten as
\* name="value", joined
RECURSIVE SnippetCleanAttrs(_, _)
SnippetCleanAttrs(tag, from) ==
  LET starts == {k \in from..(Len(tag) - 3) :
                   /\ IsSpace(CharAt(tag, k))
                   /\ WordEnd(tag, k) > k
                   /\ WordEnd(tag, k) < Len(tag)
                   /\ CharAt(tag, WordEnd(tag, k) + 1) = "="
                   /\ QuotedValueAt(tag, WordEnd(tag, k) + 2).ok}
  IN IF starts = {} THEN ""
     ELSE LET k == SetMin(starts)
              e == WordEnd(tag, k)
              v == QuotedValueAt(tag, e + 2)
              attr == SubSeq(tag, k, e) \o "=\"" \o v.value \o "\""
          IN (IF StartsWith(SubSeq(tag, k, Len(tag)), " href=") THEN "" ELSE attr)
               \o SnippetCleanAttrs(tag, v.close + 1)

\* the callback of /<a[^>]*href=\\?("|')(.*?)\\?("|')[^>]*>/gi on the text from
\* '<a' to the next '>': "" when the pattern does not match it
SnippetAnchorTag(tag) ==
  LET p == LastQuotedAttr(tag, "href=", 3)
  IN IF p = 0 THEN ""
     ELSE "<a href=\"" \o SnippetCleanUrl(QuotedValueAt(tag, p + 5).value) \o "\""
            \o SnippetCleanAttrs(tag, 1) \o ">"

RECURSIVE SnippetAnchorTags(_)
SnippetAnchorTags(s) ==
  LET i == IndexFrom(ToLowerCase(s), "<a", 1)
      j == IF i = 0 THEN 0 ELSE IndexFrom(s, ">", i + 2)
  IN IF i = 0 \/ j = 0 THEN s
     ELSE LET r == SnippetAnchorTag(SubSeq(s, i, j))
          IN IF r # "" THEN SubSeq(s, 1, i - 1) \o r \o SnippetAnchorTags(Drop(s, j))
             ELSE SubSeq(s, 1, i + 1) \o SnippetAnchorTags(Drop(s, i + 1))

\* .replace(/<script\b[^<]*(?:(?!<\/script>)<[^<]*)*<\/script>/gi, ''): each
\* '<script' that ends a word and has a '</script>' after it goes, up to the
\* first such '</script>'
RECURSIVE RemoveScriptElements(_)
RemoveScriptElements(s) ==
  LET low == ToLowerCase(s)
      opens == {i \in 1..(Len(s) - 6) :
                  /\ SubSeq(low, i, i + 6) = "<script"
                  /\ (i + 7 > Len(s) \/ ~IsWordChar(CharAt(s, i + 7)))}
      i == IF opens = {} THEN 0 ELSE SetMin(opens)
      j == IF i = 0 THEN 0 ELSE IndexFrom(low, "</script>", i + 7)
  IN IF i = 0 \/ j = 0 THEN s
     ELSE SubSeq(s, 1, i - 1) \o RemoveScriptElements(Drop(s, j + 8))

\* the length preprocessHtmlSnippet cuts the snippet at
maxSnippetLength == 2000

\* preprocessHtmlSnippet(html)
preprocessHtmlSnippet(html) ==
  IF html = "" THEN ""
  ELSE Take(RemoveScriptElements(SnippetAnchorTags(SnippetImgTags(CollapseWhitespace(html)))),
            maxSnippetLength)

(***************************************************************************)
(* sanitizeHtml of sanitizeHtml.ts: the pre-clean pass.                    *)
(***************************************************************************)
\* .replace(/\s+name=(['"]).*?\1/gi, ''): a run of spaces, name= in any case, a
\* quote, and the text up to the next quote of the same kind on the same line
RECURSIVE RemoveQuotedAttribute(_, _)
RemoveQuotedAttribute(s, name) ==
  LET low == ToLowerCase(s)
      n == Len(name)
      Close(k) ==
        LET q == CharAt(s, k + n + 1)
            c == IF q \in QuoteChars THEN IndexFrom(s, q, k + n + 2) ELSE 0
        IN IF c # 0 /\ ~Includes(SubSeq(s, k + n + 2, c - 1), "\n") THEN c ELSE 0
      at == {k \in 2..(Len(s) - n - 1) :
               /\ IsSpace(CharAt(s, k - 1))
               /\ SubSeq(low, k, k + n) = name \o "="
               /\ Close(k) # 0}
  IN IF at = {} THEN s
     ELSE LET k == SetMin(at)
              inked == {i \in 1..(k - 1) : ~IsSpace(CharAt(s, i))}
              start == IF inked = {} THEN 1 ELSE SetMax(inked) + 1
          IN SubSeq(s, 1, start - 1) \o RemoveQuotedAttribute(Drop(s, Close(k)), name)

\* the capture of  [\\]?["']([^"']*)[\\]?["']  at position q: the greedy
\* [^"']* takes everything up to the closing quote, a backslash before it
\* included
CapturedUrlAt(tag, q) ==
  LET open == IF q <= Len(tag) /\ CharAt(tag, q) = "\\" THEN q + 1 ELSE q
  IN SubSeq(tag, open + 1, QuotedValueAt(tag, q).close - 1)

\* url.replace(/\/$/, '')
DropTrailingSlash(url) ==
  IF Len(url) > 0 /\ CharAt(url, Len(url)) = "/" THEN SubSeq(url, 1, Len(url) - 1) ELSE url

\* cleanUrl of the img callback.  The captured url holds no quote character.
SanitizeCleanUrl(url) == DropTrailingSlash(ReplaceAll(url, "&quot;", ""))

\* the callback of /<img[^>]*src=[\\]?["']([^"']*)[\\]?["'][^>]*>/gi on the
\* text from '<img' to the next '>': "" when the pattern does not match it
SanitizeImgTag(tag) ==
  LET p == LastQuotedAttr(tag, "src=", 5)
  IN IF p = 0 THEN ""
     ELSE "<img src=\"" \o SanitizeCleanUrl(CapturedUrlAt(tag, p + 4)) \o "\">"

RECURSIVE SanitizeImgTags(_)
SanitizeImgTags(s) ==
  LET i == IndexFrom(ToLowerCase(s), "<img", 1)
      j == IF i = 0 THEN 0 ELSE IndexFrom(s, ">", i + 4)
  IN IF i = 0 \/ j = 0 THEN s
     ELSE LET r == SanitizeImgTag(SubSeq(s, i, j))
          IN IF r # "" THEN SubSeq(s, 1, i - 1) \o r \o SanitizeImgTags(Drop(s, j))
             ELSE SubSeq(s, 1, i + 3) \o SanitizeImgTags(Drop(s, i + 3))

\* the callback of /<a[^>]*href=[\\]?["']([^"']*)[\\]?["'][^>]*>/gi on the text
\* from '<a' to the next '>': tagStart is cut at the first 'href=' of the match
\* (slice(0, -1) when the match spells it in capitals), tagEnd after the first
\* occurrence of url in the match and one character more
SanitizeAnchorTag(tag) ==
  LET p == LastQuotedAttr(tag, "href=", 3)
      url == CapturedUrlAt(tag, p + 5)
      h == IndexFrom(tag, "href=", 1)
      u == IF url = "" THEN 1 ELSE IndexFrom(tag, url, 1)
      tagStart == IF h = 0 THEN SubSeq(tag, 1, Len(tag) - 1) ELSE SubSeq(tag, 1, h - 1)
      tagEnd == Drop(tag, u + Len(url))
  IN IF p = 0 THEN ""
     ELSE tagStart \o "href=\"" \o url \o "\"" \o tagEnd

RECURSIVE SanitizeAnchorTags(_)
SanitizeAnchorTags(s) ==
  LET i == IndexFrom(ToLowerCase(s), "<a", 1)
      j == IF i = 0 THEN 0 ELSE IndexFrom(s, ">", i + 2)
  IN IF i = 0 \/ j = 0 THEN s
     ELSE LET r == SanitizeAnchorTag(SubSeq(s, i, j))
          IN IF r # "" THEN SubSeq(s, 1, i - 1) \o r \o SanitizeAnchorTags(Drop(s, j))
             ELSE SubSeq(s, 1, i + 1) \o SanitizeAnchorTags(Drop(s, i + 1))

\* .replace(/&amp;([a-z]+);/gi, '&$1;')
RECURSIVE KeepNamedEntities(_)
KeepNamedEntities(s) ==
  LET at == {i \in 1..(Len(s) - 6) :
               /\ SubSeq(s, i, i + 4) = "&amp;"
               /\ CharAt(ToLowerCase(s), i + 5) \in
                    {CharAt(LowerLetters, k) : k \in 1..Len(LowerLetters)}
               /\ \E e \in (i + 6)..Len(s) :
                    /\ CharAt(s, e) = ";"
                    /\ \A k \in (i + 5)..(e - 1) :
                         CharAt(ToLowerCase(s), k) \in
                           {CharAt(LowerLetters, m) : m \in 1..Len(LowerLetters)}}
  IN IF at = {} THEN s
     ELSE LET i == SetMin(at)
          IN SubSeq(s, 1, i) \o KeepNamedEntities(Drop(s, i + 4))

\* .replace(/name="([^"]*)""/g, 'name="$1"'): a value closed by two quotes
\* keeps one
RECURSIVE UndoubleQuote(_, _)
UndoubleQuote(s, name) ==
  LET n == Len(name)
      at == {i \in 1..(Len(s) - n - 2) :
               /\ SubSeq(s, i, i + n + 1) = name \o "=\""
               /\ LET c == IndexFrom(s, "\"", i + n + 2)
                  IN c # 0 /\ c < Len(s) /\ CharAt(s, c + 1) = "\""}
  IN IF at = {} THEN s
     ELSE LET i == SetMin(at)
              c == IndexFrom(s, "\"", i + n + 2)
          IN SubSeq(s, 1, c) \o UndoubleQuote(Drop(s, c + 1), name)

\* preprocessed of sanitizeHtml
Preclean(htmlContent) ==
  UndoubleQuote(
    UndoubleQuote(
      ReplaceAll(
        ReplaceAll(
          KeepNamedEntities(
            SanitizeAnchorTags(
              SanitizeImgTags(
                RemoveQuotedAttribute(RemoveQuotedAttribute(htmlContent, "style"),
                                      "class")))),
          "&quot;", "\""),
        "\\\"", "\""),
      "src"),
    "href")

(***************************************************************************)
(* sanitizeHtml: the DOMPurify call.  The configuration is the one of      *)
(* sanitizeHtml.ts; what DOMPurify does with it is its documented          *)
(* behaviour: a profile of USE_PROFILES replaces ALLOWED_TAGS and          *)
(* ALLOWED_ATTR, ADD_ATTR is added to the result, FORBID_TAGS and          *)
(* FORBID_ATTR win over both, data- attributes are kept, a removed element *)
(* leaves its content behind except for the elements of FORBID_CONTENTS,   *)
(* and the result is the serialization of the parsed document (names in    *)
(* lower case, values in double quotes).  The text is read as a sequence   *)
(* of tags and text: nesting is not repaired.                              *)
(***************************************************************************)
ALLOWED_TAGS ==
  { "b", "br", "code", "div", "em", "h1", "h2", "h3", "h4", "h5", "h6", "hr", "i",
    "img", "li", "ol", "p", "pre", "span", "strong", "table", "tbody", "td", "th",
    "thead", "tr", "ul" }

ALLOWED_ATTR == {"href", "src", "alt", "title", "target", "rel"}

ADD_ATTR == {"target", "rel"}

FORBID_TAGS == {"script", "style", "iframe"}

\* FORBID_ATTR without 'class'
FORBID_ATTR_StyleOnly == {"onerror", "onload", "onclick", "style"}

FORBID_ATTR == {"onerror", "onload", "onclick", "style", "class"}

USE_PROFILES == [html |-> TRUE]

\* the html profile of DOMPurify, as far as the inputs use it: its tags hold
\* the anchor and style elements and no script or iframe; its attributes hold
\* class, style and id and no event handler
HtmlProfileTags == ALLOWED_TAGS \cup {"a", "blockquote", "figure", "style", "u"}

HtmlProfileAttr == {"alt", "class", "height", "href", "id", "src", "style", "title", "width"}

\* elements whose content goes with them
FORBID_CONTENTS == {"script", "style", "iframe", "noscript", "template", "svg", "math"}

EffectiveTags == IF USE_PROFILES.html THEN HtmlProfileTags ELSE ALLOWED_TAGS

EffectiveAttr ==
  (IF USE_PROFILES.html THEN HtmlProfileAttr ELSE ALLOWED_ATTR) \cup ADD_ATTR

TagAllowed(name) == name \in EffectiveTags /\ name \notin FORBID_TAGS

AttrAllowed(name) ==
  /\ name \notin FORBID_ATTR
  /\ name \in EffectiveAttr \/ StartsWith(name, "data-")

\* the scheme test of DOMPurify on a href or src value: no scheme, or a known one
UriAllowed(value) ==
  LET low == ToLowerCase(Trim(value))
      c == IndexFrom(low, ":", 1)
      s == IndexFrom(low, "/", 1)
  IN \/ c = 0
     \/ s # 0 /\ s < c
     \/ SubSeq(low, 1, c - 1) \in {"http", "https", "mailto", "ftp", "tel"}

\* the characters a parsed value holds for the references in it
DecodeEntities(s) ==
  ReplaceAll(ReplaceAll(ReplaceAll(ReplaceAll(ReplaceAll(s,
    "&lt;", "<"), "&gt;", ">"), "&quot;", "\""), "&#39;", "'"), "&amp;", "&")

\* the character reference that begins at the '&' at position k of s: how
\* long it is and the character it stands for.  Another named reference
\* (&nbsp;) stands for a character that is written back as the reference; a
\* '&' that begins no reference stands for itself.
ReferenceAt(s, k) ==
  LET rest == SubSeq(s, k, Min(Len(s), k + 5))
      e == WordEnd(s, k)
  IN IF StartsWith(rest, "&amp;") THEN [len |-> 5, char |-> "&"]
     ELSE IF StartsWith(rest, "&lt;") THEN [len |-> 4, char |-> "<"]
     ELSE IF StartsWith(rest, "&gt;") THEN [len |-> 4, char |-> ">"]
     ELSE IF StartsWith(rest, "&quot;") THEN [len |-> 6, char |-> "\""]
     ELSE IF StartsWith(rest, "&#39;") THEN [len |-> 5, char |-> "'"]
     ELSE IF e > k /\ e < Len(s) /\ CharAt(s, e + 1) = ";"
       THEN [len |-> e + 1 - k + 1, char |-> SubSeq(s, k, e + 1)]
     ELSE [len |-> 1, char |-> "&"]

\* the serialization of the text (inAttr: of the attribute value) that the
\* parser reads from s: references are decoded, then '&' and, in a text, '<'
\* and '>', in a value '"', are written as references
Reserialize(s, inAttr) ==
  LET Written(c) ==
        IF c = "&" THEN "&amp;"
        ELSE IF c = "<" /\ ~inAttr THEN "&lt;"
        ELSE IF c = ">" /\ ~inAttr THEN "&gt;"
        ELSE IF c = "\"" /\ inAttr THEN "&quot;"
        ELSE c
      Piece(i) ==
        LET amps == {k \in 1..i : CharAt(s, k) = "&"}
            k == IF amps = {} THEN 0 ELSE SetMax(amps)
        IN IF k = i THEN Written(ReferenceAt(s, k).char)
           ELSE IF k # 0 /\ i < k + ReferenceAt(s, k).len THEN ""
           ELSE Written(CharAt(s, i))
  IN ConcatRange(Piece, 1, Len(s))

\* the serialization of a text node
SerializeText(s) == Reserialize(s, FALSE)

\* the serialization of an attribute value
SerializeValue(s) == Reserialize(s, TRUE)

\* the end of the name that begins at position k of tag: names end at a
\* space, '=', '/' or '>'
NameEnd(tag, k) ==
  LET stops == {i \in k..Len(tag) :
                  IsSpace(CharAt(tag, i)) \/ CharAt(tag, i) \in {"=", "/", ">"}}
  IN IF stops = {} THEN Len(tag) ELSE SetMin(stops) - 1

\* first position at or after k of tag that holds no space (and no '/' when
\* slash is set), Len(tag) + 1 if none
SkipBlank(tag, k, slash) ==
  LET inked == {i \in k..Len(tag) :
                  ~IsSpace(CharAt(tag, i)) /\ (slash => CharAt(tag, i) # "/")}
  IN IF inked = {} THEN Len(tag) + 1 ELSE SetMin(inked)

\* the attributes of a start tag from position k on that the sanitizer keeps,
\* serialized; seen holds the names met so far (a repeated name is ignored)
RECURSIVE KeptAttributes(_, _, _)
KeptAttributes(tag, k, seen) ==
  LET a == SkipBlank(tag, k, TRUE)
      e == NameEnd(tag, a)
      name == ToLowerCase(SubSeq(tag, a, e))
      eq == SkipBlank(tag, e + 1, FALSE)
      hasValue == eq <= Len(tag) /\ CharAt(tag, eq) = "="
      v == SkipBlank(tag, eq + 1, FALSE)
      quoted == hasValue /\ v <= Len(tag) /\ CharAt(tag, v) \in QuoteChars
      close == IF quoted THEN IndexFrom(tag, CharAt(tag, v), v + 1) ELSE 0
      bare == {i \in v..Len(tag) : IsSpace(CharAt(tag, i)) \/ CharAt(tag, i) = ">"}
      last == IF ~hasValue THEN e
              ELSE IF quoted THEN (IF close = 0 THEN Len(tag) ELSE close)
              ELSE IF bare = {} THEN Len(tag) ELSE SetMin(bare) - 1
      value == IF ~hasValue THEN ""
               ELSE IF quoted THEN SubSeq(tag, v + 1, IF close = 0 THEN Len(tag) ELSE close - 1)
               ELSE SubSeq(tag, v, last)
      keep == /\ name \notin seen
              /\ AttrAllowed(name)
              /\ name \in {"href", "src"} => UriAllowed(DecodeEntities(value))
  IN IF a > Len(tag) \/ CharAt(tag, a) = ">" \/ e < a THEN ""
     ELSE (IF keep THEN " " \o name \o "=\"" \o SerializeValue(value) \o "\"" ELSE "")
            \o KeptAttributes(tag, last + 1, seen \cup {name})

\* DOMPurify.sanitize(dirty, config)
RECURSIVE Purify(_)
Purify(dirty) ==
  LET opens == {i \in 1..(Len(dirty) - 1) :
                  /\ CharAt(dirty, i) = "<"
                  /\ \/ CharAt(ToLowerCase(dirty), i + 1) \in
                          {CharAt(LowerLetters, k) : k \in 1..Len(LowerLetters)}
                     \/ CharAt(dirty, i + 1) = "/"}
      i == IF opens = {} THEN 0 ELSE SetMin(opens)
      j == IF i = 0 THEN 0 ELSE IndexFrom(dirty, ">", i + 1)
      closing == i # 0 /\ CharAt(dirty, i + 1) = "/"
      tag == SubSeq(dirty, i, IF j = 0 THEN Len(dirty) ELSE j)
      from == IF closing THEN 3 ELSE 2
      name == ToLowerCase(SubSeq(tag, from, NameEnd(tag, from)))
      end == IndexFrom(ToLowerCase(dirty), "</" \o name, i + 1)
      endClose == IF end = 0 THEN 0 ELSE IndexFrom(dirty, ">", end)
  IN IF i = 0 THEN SerializeText(dirty)
     ELSE SerializeText(SubSeq(dirty, 1, i - 1)) \o
          (IF j = 0 THEN ""
           ELSE IF closing
             THEN (IF TagAllowed(name) THEN "</" \o name \o ">" ELSE "")
                    \o Purify(Drop(dirty, j))
           ELSE IF TagAllowed(name)
             THEN "<" \o name \o KeptAttributes(tag, from + Len(name), {}) \o ">"
                    \o Purify(Drop(dirty, j))
           ELSE IF name \in FORBID_CONTENTS
             THEN (IF endClose = 0 THEN "" ELSE Purify(Drop(dirty, endClose)))
           ELSE Purify(Drop(dirty, j)))

(***************************************************************************)
(* sanitizeHtml: the passes after DOMPurify, and the function.             *)
(***************************************************************************)
EndsWith(s, p) == Len(p) <= Len(s) /\ SubSeq(s, Len(s) - Len(p) + 1, Len(s)) = p

\* the three replacements of src values: 1 is /src="([^"]*)&quot;\/"/g, 2 is
\* /src="&quot;([^"]*)"/g, 3 is /src="([^"]*)&quot;"/g, each to src="$1"
FixedSrcValue(v, which) ==
  IF which = 1 /\ EndsWith(v, "&quot;/") THEN SubSeq(v, 1, Len(v) - 7)
  ELSE IF which = 2 /\ StartsWith(v, "&quot;") THEN Drop(v, 6)
  ELSE IF which = 3 /\ EndsWith(v, "&quot;") THEN SubSeq(v, 1, Len(v) - 6)
  ELSE v

RECURSIVE FixSrcValues(_, _)
FixSrcValues(s, which) ==
  LET i == IndexFrom(s, "src=\"", 1)
      c == IF i = 0 THEN 0 ELSE IndexFrom(s, "\"", i + 5)
  IN IF i = 0 \/ c = 0 THEN s
     ELSE SubSeq(s, 1, i + 4) \o FixedSrcValue(SubSeq(s, i + 5, c - 1), which) \o "\""
            \o FixSrcValues(Drop(s, c), which)

\* the extensions of the two tests of the final pass
DomainOrImageSuffixes ==
  {"com", "org", "net", "io", "app", "dev", "co", "me", "blog",
   "jpg", "jpeg", "png", "gif", "webp", "svg", "bmp"}

ImageSuffixes == {"jpg", "jpeg", "png", "gif", "webp", "svg", "bmp"}

\* the callback of /<img[^>]*src="([^"]+?)\/?"[^>]*>/g on the text from '<img'
\* to the next '>': url is the value of the last src="..." without one
\* trailing slash; the tag is returned as it is unless url ends with an image
\* suffix and a slash and holds no '.suffix/' in the case of the first test
FinalImgTag(tag) ==
  LET at == {p \in 5..(Len(tag) - 6) :
               /\ SubSeq(tag, p, p + 4) = "src=\""
               /\ IndexFrom(tag, "\"", p + 5) > p + 5}
      p == IF at = {} THEN 0 ELSE SetMax(at)
      value == SubSeq(tag, p + 5, IndexFrom(tag, "\"", p + 5) - 1)
      url == IF Len(value) > 1 THEN DropTrailingSlash(value) ELSE value
      u == IndexFrom(tag, url \o "/", 1)
  IN IF p = 0 THEN tag
     ELSE IF \E x \in DomainOrImageSuffixes : Includes(url, "." \o x \o "/") THEN tag
     ELSE IF (\E x \in ImageSuffixes : EndsWith(ToLowerCase(url), "." \o x \o "/")) /\ u # 0
       THEN SubSeq(tag, 1, u - 1) \o url \o Drop(tag, u + Len(url))
     ELSE tag

RECURSIVE FinalImgTags(_)
FinalImgTags(s) ==
  LET i == IndexFrom(s, "<img", 1)
      j == IF i = 0 THEN 0 ELSE IndexFrom(s, ">", i + 4)
  IN IF i = 0 \/ j = 0 THEN s
     ELSE SubSeq(s, 1, i - 1) \o FinalImgTag(SubSeq(s, i, j)) \o FinalImgTags(Drop(s, j))

\* sanitizeHtml(htmlContent)
sanitizeHtml(htmlContent) ==
  IF htmlContent = "" THEN ""
  ELSE "<div class=\"sanitized-content\">"
         \o FinalImgTags(FixSrcValues(FixSrcValues(FixSrcValues(
              Purify(Preclean(htmlContent)), 1), 2), 3))
         \o "</div>"

(***************************************************************************)
(* Configuration and inputs.                                               *)
(***************************************************************************)
\* the configured feeds: the first two of src/data/feeds.ts, one ordinary
\* source and one Substack source
Feeds ==
  << [url |-> "https://www.ashryan.io/rss/", authorName |-> "Ash Ryan Arnwine"],
     [url |-> "https://jtbx.substack.com/feed", authorName |-> "Jawaun"] >>

\* item blocks a server may deliver
ItemTitled ==
  [title |-> "Hello World", link |-> "https://a.io/1", published |-> Rfc2822(0),
   description |-> "<![CDATA[<p>Body &amp; text</p>]]>"]
\* a microblog entry: no title, no link, no date
ItemMicroblog ==
  [title |-> "", link |-> "", published |-> EmptyDate,
   description |->
     "Hello world this is a long enough description to trigger fallback title generation beyond fifty five characters"]
\* nothing readable in the title or in the description
ItemEmpty ==
  [title |-> "  ", link |-> "https://a.io/3", published |-> GarbageDate,
   description |-> "<br/>"]
\* another post (another link) whose title differs from ItemTitled's in case and
\* punctuation, dated in the future
ItemRetitled ==
  [title |-> "hello, world!", link |-> "https://a.io/2",
   published |-> ToISOString(1000), description |-> ""]
\* a description that is escaped markup only
ItemMarkupOnly ==
  [title |-> "", link |-> "http://b.io/5", published |-> GarbageDate,
   description |-> "&lt;br&gt;"]

\* response bodies: root is "rss" when the body contains '<rss', "feed" when it
\* contains '<feed' (and not '<rss'), "html" when it contains neither; items are
\* the blocks the item pattern of that kind delimits;
\* short tells whether the text has fewer than 100 characters, challenge
\* whether it holds 'captcha' or 'challenge-form'.
DocFull ==
  [root |-> "rss", items |-> <<ItemTitled, ItemMicroblog, ItemEmpty>>,
   short |-> FALSE, challenge |-> FALSE]
DocShrunk ==
  [root |-> "rss", items |-> <<ItemTitled>>, short |-> FALSE, challenge |-> FALSE]
DocAtom ==
  [root |-> "feed", items |-> <<ItemMarkupOnly, ItemTitled, ItemRetitled>>,
   short |-> FALSE, challenge |-> FALSE]
ChallengePage ==
  [root |-> "html", items |-> << >>, short |-> FALSE, challenge |-> TRUE]
NoText == [root |-> "none", items |-> << >>, short |-> TRUE, challenge |-> FALSE]

\* a document of a few characters that has the mark of a feed: <rss></rss>
ShortFeed == [root |-> "rss", items |-> << >>, short |-> TRUE, challenge |-> FALSE]

\* a challenge page whose text holds '<feed' (a <feedback> element, a link to
\* the feed it stands before)
ChallengeFeed ==
  [root |-> "feed", items |-> << >>, short |-> FALSE, challenge |-> TRUE]

Bodies == {DocFull, DocShrunk, DocAtom, ChallengePage}

\* what one request can produce: a response with a status, or a network error
Responses ==
  {[kind |-> "response", status |-> 429, statusText |-> "Too Many Requests", body |-> NoText],
   [kind |-> "response", status |-> 500, statusText |-> "Internal Server Error", body |-> NoText],
   [kind |-> "network", status |-> 0, statusText |-> "", body |-> NoText]}
  \cup {[kind |-> "response", status |-> 200, statusText |-> "OK", body |-> b] : b \in Bodies}

\* the outcomes of one request, those of Responses and more: other statuses,
\* an error status with a feed as body, bodies that are no feed but have the
\* mark of one, and a server that never answers
AllResponses ==
  Responses
  \cup {[kind |-> "response", status |-> 404, statusText |-> "Not Found", body |-> ChallengePage],
        [kind |-> "response", status |-> 500, statusText |-> "Internal Server Error",
         body |-> DocFull],
        [kind |-> "response", status |-> 200, statusText |-> "OK", body |-> NoText],
        [kind |-> "response", status |-> 200, statusText |-> "OK", body |-> ShortFeed],
        [kind |-> "response", status |-> 200, statusText |-> "OK", body |-> ChallengeFeed],
        [kind |-> "silent", status |-> 0, statusText |-> "", body |-> NoText]}

\* pieces of markup a description is made of: text, allow-listed elements, a
\* correctly formed link and image, and the constructs a sanitizer is for
Fragments ==
  { "Hi ",
    "<b>z</b>",
    "<a href=\"http://x.io/p\" title=\"T\">y</a>",
    "<img src=\"http://x.io/a.png\" alt=\"A\">",
    "<p style=\"c\" class=\"k\">x</p>",
    "<script>a()</script>",
    "<iframe src=\"http://x.io\"></iframe>",
    "<img src=x onerror=a()>",
    "<a href=\"http://x.io/\" onclick=\"b()\">w</a>",
    "<i class=k>q</i>" }

\* the fragments built only from allow-listed tags and attributes: text, an
\* inline element, a link with href and title, an image with src and alt
AllowListedFragments ==
  { "Hi ",
    "<b>z</b>",
    "<a href=\"http://x.io/p\" title=\"T\">y</a>",
    "<img src=\"http://x.io/a.png\" alt=\"A\">" }

\* the descriptions of at most n fragments
RECURSIVE HtmlsUpTo(_)
HtmlsUpTo(n) ==
  IF n = 0 THEN {""}
  ELSE HtmlsUpTo(n - 1) \cup {h \o f : h \in HtmlsUpTo(n - 1), f \in Fragments}

Htmls == HtmlsUpTo(MaxFragments) \ {""}

\* how a feed generator writes markup inside <description>: entity-encoded
XmlEscape(h) ==
  ReplaceAll(ReplaceAll(ReplaceAll(ReplaceAll(h, "&", "&amp;"), "<", "&lt;"),
                        ">", "&gt;"), "\"", "&quot;")

\* the text between <description> and </description> for markup h
Delivered(h, how) ==
  IF how = "cdata" THEN "<![CDATA[" \o h \o "]]>" ELSE XmlEscape(h)

\* an item of the site's feed as fetchRss returns it: link, and pubDate as the
\* instant new Date(item.pubDate) gives
RssItem(link, pubDate) == [link |-> link, pubDate |-> pubDate]

\* the site's feed with seven entries, newest first as rss.xml.js writes it
FeedSeven ==
  << RssItem("g", 7), RssItem("f", 6), RssItem("e", 5), RssItem("d", 4),
     RssItem("c", 3), RssItem("b", 2), RssItem("a", 1) >>

\* the feed after two new entries, in an order the notifier has to sort
FeedGrown == << RssItem("h", 8) >> \o FeedSeven \o << RssItem("i", 9) >>

\* a feed with two entries for one link: the store holds two records of a post
\* that was retitled upstream, the later one stamped anew
FeedRetitled == << RssItem("r", 11), RssItem("r", 10) >>

\* a later feed: a new entry, an entry of FeedSeven with a newer date (its
\* pubDate was edited upstream) and an old one
FeedRestamped == << RssItem("j", 13), RssItem("g", 12), RssItem("a", 1) >>

FeedOutputs == {FeedSeven, FeedGrown, FeedRetitled, FeedRestamped}

(***************************************************************************)
(* State.                                                                  *)
(***************************************************************************)
VARIABLES
  run,          \* number of the orchestrator run (a process) under way
  pc,           \* position of the run: "main", "fetch", "parse", "mkdir",
                \* "write", "returned", "summary"
  feedIdx,      \* main: position of the for loop in Feeds
  results,      \* main: results
  now,          \* the clock
  processedSubstackDomains,  \* module-level set of feedCollector.ts
  attempt,      \* getFeedXML: attempt
  backoffDelay, \* getFeedXML: backoffDelay, the wait made before the request
                \* under way (0 before the first request of a call)
  text,         \* getFeedContent: text
  entries,      \* getFeedContent: entries
  writeIdx,     \* getFeedContent: position of the write loop in entries
  retval,       \* what the call of getFeedContent resolved to
  thrown,       \* whether the call of getFeedContent rejected
  store,        \* src/content/feeds: file name -> record
  calls,        \* history: the feeds main has invoked getFeedContent for, this run
  n429,         \* history: HTTP 429 responses received during the current call
  failedAt,     \* history: the statement of the current call that threw, or ""
  writeFailedAt,\* history: position of the entry whose writeFile failed, or 0
  lastText,     \* history: per feed, the document of its last call that returned
                \* its entries
  keysAtInvoke, \* history: the store's file names when the current call began
  written,      \* history: the file names the current call has written, in order
  html,         \* a description as markup, before the feed's XML encoding
  delivery,     \* how the feed encodes it: "escaped" (entities) or "cdata"
  snippet,      \* the snippet getFeedContent makes of it
  sanitized,    \* what sanitizeHtml makes of the snippet (or of html itself)
  spc,          \* markup pipeline: "off", "input", "stored", "rendered", "sanitized"
  ledgerFile,   \* .discord-sent-posts.json: whether it exists, and its content
  invocation,   \* number of the notifier invocation (a process) under way
  npc,          \* position of notifyNewItems: "idle", "fetch", "send", "done"
  tracker,      \* notifyNewItems: tracker, as loaded
  rssItems,     \* notifyNewItems: items, sorted
  itemsToSend,  \* notifyNewItems: itemsToSend
  sendIdx,      \* notifyNewItems: position of the for loop in itemsToSend
  sentPostsSet, \* notifyNewItems: sentPostsSet
  newLatestTimestamp, \* notifyNewItems: newLatestTimestamp
  attempts,     \* history: the calls of sendToDiscord of this invocation, in
                \* order, each with whether the webhook accepted the post
  posted,       \* history: the links the webhook has accepted, all invocations
  reposted,     \* history: the links the webhook has accepted more than once
  request,      \* getFeedXML, one pass of its loop: url, attempt and what the
                \* request produces
  outcome,      \* what the pass did: "pending" (the await of fetch has not
                \* resolved), "retry", "return" or "throw"
  urls,         \* the feed URLs one run passes to getFeedXML, in order
  urlIdx,       \* position of the run in urls
  delays,       \* history: per call of getFeedXML, the waits before its first
                \* request, in milliseconds (0: no wait)
  dateStr,      \* parseDate: the date text of an entry
  dateNow,      \* the instant new Date() gives
  parsed,       \* what parseDate returned for dateStr and, after that, for its
                \* own result
  entryPieces,  \* the elements an item block is made of, in order
  entryImage    \* parseEntry: the imageUrl of the entry parsed from the block,
                \* or "pending" before the call

collectorVars ==
  << run, pc, feedIdx, results, now, processedSubstackDomains, attempt, text,
     entries, writeIdx, retval, thrown, store, calls, n429, failedAt,
     writeFailedAt, lastText, keysAtInvoke, written, backoffDelay >>

sanitizerVars == << html, delivery, snippet, sanitized, spc >>

notifierVars ==
  << ledgerFile, invocation, npc, tracker, rssItems, itemsToSend, sendIdx,
     sentPostsSet, newLatestTimestamp, attempts, posted, reposted >>

fetchVars == << request, outcome >>

delayVars == << urls, urlIdx, delays >>

dateVars == << dateStr, dateNow, parsed >>

\* the variables of the specifications of single functions
imageVars == << entryPieces, entryImage >>

unitVars == << delayVars, dateVars, imageVars >>

vars == << collectorVars, sanitizerVars, notifierVars, fetchVars, unitVars >>

feed == Feeds[feedIdx]

\* const isSubstackFeed = url.includes('substack.com')
isSubstackFeed(url) == Includes(url, "substack.com")

\* extractSubstackDomain(url): new URL(url).hostname, for an http(s) URL
extractSubstackDomain(url) ==
  LET i == IndexFrom(url, "://", 1)
      rest == IF i = 0 THEN url ELSE Drop(url, i + 2)
      j == IndexFrom(rest, "/", 1)
  IN IF j = 0 THEN rest ELSE Take(rest, j - 1)

\* the backoff with a base of one second
calculateExponentialBackoffBaseOneSecond(att) == Min(2 ^ att * 1000, 300000)

\* calculateExponentialBackoff(attempt, baseDelay = 30000)
calculateExponentialBackoff(att) == Min(2 ^ att * 30000, 300000)

\* mutant of maxRetries: one retry more
maxRetriesPlusOne == 3 + 1

\* const maxRetries = 3
maxRetries == 3

CollectorInit ==
  /\ run = 1
  /\ pc = "main"
  /\ feedIdx = 1
  /\ results = << >>
  /\ now = 1
  /\ processedSubstackDomains = {}
  /\ attempt = 0
  /\ backoffDelay = 0
  /\ text = NoText
  /\ entries = << >>
  /\ writeIdx = 0
  /\ retval = << >>
  /\ thrown = FALSE
  /\ store = [f \in {} |-> NoText]
  /\ calls = << >>
  /\ n429 = 0
  /\ failedAt = ""
  /\ writeFailedAt = 0
  /\ lastText = [i \in 1..Len(Feeds) |-> NoText]
  /\ keysAtInvoke = {}
  /\ written = << >>

\* no description is in the markup pipeline
SanitizerOff ==
  /\ html = ""
  /\ delivery = "escaped"
  /\ snippet = ""
  /\ sanitized = ""
  /\ spc = "off"

\* MAX_NOTIFICATIONS raised above the length of every feed
MAX_NOTIFICATIONS_Ten == 5 + 5

\* const MAX_NOTIFICATIONS = 5
MAX_NOTIFICATIONS == 5

\* the tracker loadPostsTracker returns when the file is missing or invalid
\* (instant 0 is 1970-01-01T00:00:00.000Z)
EmptyTracker == [sentPosts |-> {}, latestTimestamp |-> 0]

\* no ledger file yet, no invocation of the notifier under way
NotifierInit ==
  /\ ledgerFile = [exists |-> FALSE, content |-> EmptyTracker]
  /\ invocation = 0
  /\ npc = "idle"
  /\ tracker = EmptyTracker
  /\ rssItems = << >>
  /\ itemsToSend = << >>
  /\ sendIdx = 0
  /\ sentPostsSet = {}
  /\ newLatestTimestamp = 0
  /\ attempts = << >>
  /\ posted = {}
  /\ reposted = {}

\* no single pass of getFeedXML is looked at
FetchOff ==
  /\ request = [url |-> "", attempt |-> 0, resp |-> [kind |-> "none"]]
  /\ outcome = "off"

\* the waits of getFeedXML are not looked at
DelayOff ==
  /\ urls = << >>
  /\ urlIdx = 0
  /\ delays = << >>

\* parseDate is not looked at
DateOff ==
  /\ dateStr = EmptyDate
  /\ dateNow = 0
  /\ parsed = << >>

\* no item block is looked at
ImageOff ==
  /\ entryPieces = << >>
  /\ entryImage = ""

UnitOff == DelayOff /\ DateOff /\ ImageOff

Init == CollectorInit /\ SanitizerOff /\ NotifierInit /\ FetchOff /\ UnitOff

(***************************************************************************)
(* getFeedXML: one pass of the retry loop.                                 *)
(***************************************************************************)
\* response.ok
ResponseOk(resp) == resp.status >= 200 /\ resp.status <= 299

\* !text.includes('<rss') && !text.includes('<feed') is false
IsFeedText(body) == body.root \in {"rss", "feed"}

\* the error the try block of the loop throws for a response, given attempt
FetchError(resp, att, url) ==
  IF resp.kind = "network"
  THEN [type |-> "TypeError", message |-> "fetch failed"]
  ELSE IF resp.status = 429
  THEN [type |-> "Error",
        message |-> "Rate limit exceeded (429) and max retries (" \o ToString(maxRetries)
                    \o ") reached for URL: " \o url]
  ELSE IF ~ResponseOk(resp)
  THEN [type |-> "Error",
        message |-> "Failed to fetch feed: " \o ToString(resp.status) \o " "
                    \o resp.statusText \o " for URL: " \o url]
  ELSE [type |-> "Error",
        message |-> "Response is not a valid RSS/Atom feed for URL: " \o url]

\* the condition of the catch block under which the request is repeated
RetriesFetchError(err, att, url) ==
  /\ att < maxRetries
  /\ isSubstackFeed(url)
  /\ (err.type = "TypeError" \/ Includes(err.message, "fetch"))

\* what one pass of the loop does with the outcome of its request:
\* "retry" (attempt++; continue), "throw" or "return" (the body)
LoopPass(resp, att, url) ==
  IF resp.kind = "response" /\ resp.status = 429 /\ att < maxRetries THEN "retry"
  ELSE IF resp.kind = "response" /\ ResponseOk(resp) /\ IsFeedText(resp.body) THEN "return"
  ELSE IF RetriesFetchError(FetchError(resp, att, url), att, url) THEN "retry"
  ELSE "throw"

(***************************************************************************)
(* getFeedContent: normalisation.                                          *)
(***************************************************************************)
\* mutant of KeepEntry: the check of the earlier collector, if (!entry.title) continue
KeepEntryTitled(entry) == entry.title # ""

\* the entry is not skipped: if (!entry.title && !entry.description) continue
KeepEntry(entry) == ~(entry.title = "" /\ entry.description = "")

\* mutant of FinalTitle: no fallback
FinalTitleSourceOnly(entry) == entry.title

\* finalTitle
FinalTitle(entry) ==
  IF entry.title # "" THEN entry.title
  ELSE IF generateTitleFromDescription(entry.description) # ""
       THEN generateTitleFromDescription(entry.description)
       ELSE "Untitled Post"

\* entryData (the fields title, link, pubDate, author, feedSource, lastFetched;
\* snippet and imageUrl take no part in control flow or file names)
EntryData(entry, fd, clock) ==
  [title |-> FinalTitle(entry),
   link |-> entry.link,
   pubDate |-> parseDate(entry.published, clock),
   author |-> fd.authorName,
   feedSource |-> fd.url,
   lastFetched |-> ToISOString(clock)]

\* the loop over the matches of itemRegex
RECURSIVE NormalizeEntries(_, _, _, _)
NormalizeEntries(items, isRSS, fd, clock) ==
  IF items = << >> THEN << >>
  ELSE LET entry == parseEntry(Head(items), isRSS)
           rest == NormalizeEntries(Tail(items), isRSS, fd, clock)
       IN IF KeepEntry(entry) THEN <<EntryData(entry, fd, clock)>> \o rest ELSE rest

\* mutant of EntryFilename: the time of the fetch is part of the name
EntryFilenameStamped(entry, fd) ==
  createSafeFilename(IF entry.link # "" THEN entry.link ELSE fd.url,
                     entry.title \o " " \o ToString(entry.lastFetched.t))

\* const filename = createSafeFilename(entry.link || feed.url, entry.title)
EntryFilename(entry, fd) ==
  createSafeFilename(IF entry.link # "" THEN entry.link ELSE fd.url, entry.title)

\* fs.writeFile(filePath, JSON.stringify(entry)): create or overwrite
WriteFile(files, filename, record) ==
  [f \in DOMAIN files \cup {filename} |-> IF f = filename THEN record ELSE files[f]]

\* mutant of TryCovers: the entries are saved after the try block
TryCoversUpToParse(site) == site = "getFeedXML"

\* the try block opened after the await of getFeedXML
TryCoversTheWrites(site) == site \in {"mkdir", "writeFile"}

\* the statements of getFeedContent the try block encloses
TryCovers(site) == site \in {"getFeedXML", "mkdir", "writeFile"}

\* an exception raised at site inside getFeedContent: the catch block returns
\* [] when the try block encloses the site, otherwise the promise rejects
Throw(site) ==
  /\ pc' = "returned"
  /\ retval' = << >>
  /\ thrown' = ~TryCovers(site)
  /\ failedAt' = site

(***************************************************************************)
(* Actions.                                                                *)
(***************************************************************************)
\* main without the await: the loop calls getFeedContent for the next feed
\* while the call before it is still at its request
InvokeWithoutAwait ==
  /\ pc \in {"main", "fetch"}
  /\ feedIdx + (IF pc = "fetch" THEN 1 ELSE 0) <= Len(Feeds)
  /\ pc' = "fetch"
  /\ feedIdx' = feedIdx + (IF pc = "fetch" THEN 1 ELSE 0)
  /\ now' = now + 1
  /\ calls' = Append(calls, feedIdx')
  /\ processedSubstackDomains' =
       IF isSubstackFeed(Feeds[feedIdx'].url)
       THEN processedSubstackDomains \cup {extractSubstackDomain(Feeds[feedIdx'].url)}
       ELSE processedSubstackDomains
  /\ attempt' = 0
  /\ n429' = 0
  /\ backoffDelay' = 0
  /\ keysAtInvoke' = DOMAIN store
  /\ UNCHANGED << run, results, text, entries, writeIdx, retval, thrown,
                  store, failedAt, writeFailedAt, lastText, written >>
  /\ UNCHANGED << sanitizerVars, notifierVars, fetchVars, unitVars >>

\* main: the for loop takes the next feed and calls getFeedContent, which calls
\* getFeedXML up to its first request
Invoke ==
  /\ pc = "main"
  /\ feedIdx <= Len(Feeds)
  /\ pc' = "fetch"
  /\ now' = now + 1
  /\ calls' = Append(calls, feedIdx)
  /\ processedSubstackDomains' =
       IF isSubstackFeed(feed.url)
       THEN processedSubstackDomains \cup {extractSubstackDomain(feed.url)}
       ELSE processedSubstackDomains
  /\ attempt' = 0
  /\ n429' = 0
  /\ backoffDelay' = 0
  /\ keysAtInvoke' = DOMAIN store
  /\ UNCHANGED << run, feedIdx, results, text, entries, writeIdx, retval, thrown,
                  store, failedAt, writeFailedAt, lastText, written >>
  /\ UNCHANGED << sanitizerVars, notifierVars, fetchVars, unitVars >>

\* getFeedXML: the request of one pass of the loop is answered by resp
FetchResponse(resp) ==
  /\ pc = "fetch"
  /\ n429' = IF resp.kind = "response" /\ resp.status = 429 THEN n429 + 1 ELSE n429
  /\ LET pass == LoopPass(resp, attempt, feed.url)
     IN \/ /\ pass = "retry"
           /\ attempt' = attempt + 1
           /\ backoffDelay' = calculateExponentialBackoff(attempt)
           /\ UNCHANGED << pc, text, retval, thrown, failedAt >>
        \/ /\ pass = "return"
           /\ text' = resp.body
           /\ pc' = "parse"
           /\ attempt' = 0
           /\ backoffDelay' = 0
           /\ UNCHANGED << retval, thrown, failedAt >>
        \/ /\ pass = "throw"
           /\ Throw("getFeedXML")
           /\ attempt' = 0
           /\ backoffDelay' = 0
           /\ UNCHANGED text
  /\ UNCHANGED << run, feedIdx, results, now, processedSubstackDomains, entries,
                  writeIdx, store, calls, writeFailedAt, lastText, keysAtInvoke,
                  written >>
  /\ UNCHANGED << sanitizerVars, notifierVars, fetchVars, unitVars >>

\* getFeedContent: the document is split into entries, which are normalised
Normalize ==
  /\ pc = "parse"
  /\ entries' = NormalizeEntries(text.items, text.root = "rss", feed, now)
  /\ pc' = "mkdir"
  /\ UNCHANGED << run, feedIdx, results, now, processedSubstackDomains, attempt, text,
                  writeIdx, retval, thrown, store, calls, n429, failedAt,
                  writeFailedAt, lastText, keysAtInvoke, written >>
  /\ UNCHANGED << backoffDelay, sanitizerVars, notifierVars, fetchVars, unitVars >>

\* getFeedContent: await fs.mkdir(feedsDir, { recursive: true })
Mkdir(ok) ==
  /\ pc = "mkdir"
  /\ IF ok
     THEN /\ pc' = "write"
          /\ writeIdx' = 1
          /\ UNCHANGED << retval, thrown, failedAt >>
     ELSE /\ Throw("mkdir")
          /\ UNCHANGED writeIdx
  /\ UNCHANGED << run, feedIdx, results, now, processedSubstackDomains, attempt, text,
                  entries, store, calls, n429, writeFailedAt, lastText, keysAtInvoke,
                  written >>
  /\ UNCHANGED << backoffDelay, sanitizerVars, notifierVars, fetchVars, unitVars >>

\* getFeedContent: one pass of the loop that saves the entries
WriteEntry(ok) ==
  /\ pc = "write"
  /\ writeIdx <= Len(entries)
  /\ IF ok
     THEN /\ LET filename == EntryFilename(entries[writeIdx], feed)
             IN /\ store' = WriteFile(store, filename, entries[writeIdx])
                /\ written' = Append(written, filename)
          /\ writeIdx' = writeIdx + 1
          /\ UNCHANGED << pc, retval, thrown, failedAt, writeFailedAt >>
     ELSE /\ Throw("writeFile")
          /\ writeFailedAt' = writeIdx
          /\ UNCHANGED << store, writeIdx, written >>
  /\ UNCHANGED << run, feedIdx, results, now, processedSubstackDomains, attempt, text,
                  entries, calls, n429, lastText, keysAtInvoke >>
  /\ UNCHANGED << backoffDelay, sanitizerVars, notifierVars, fetchVars, unitVars >>

\* getFeedContent: return entries
ReturnEntries ==
  /\ pc = "write"
  /\ writeIdx > Len(entries)
  /\ pc' = "returned"
  /\ retval' = entries
  /\ UNCHANGED << run, feedIdx, results, now, processedSubstackDomains, attempt, text,
                  entries, writeIdx, thrown, store, calls, n429, failedAt,
                  writeFailedAt, lastText, keysAtInvoke, written >>
  /\ UNCHANGED << backoffDelay, sanitizerVars, notifierVars, fetchVars, unitVars >>

\* mutant of MainResume: a feed without entries ends the loop
MainResumeStopsOnFailure ==
  /\ pc = "returned"
  /\ results' = Append(results, [feed |-> feed, count |-> IF thrown THEN 0 ELSE Len(retval)])
  /\ feedIdx' = IF thrown \/ retval = << >> THEN Len(Feeds) + 1 ELSE feedIdx + 1
  /\ pc' = "main"
  /\ text' = NoText
  /\ entries' = << >>
  /\ writeIdx' = 0
  /\ retval' = << >>
  /\ thrown' = FALSE
  /\ n429' = 0
  /\ failedAt' = ""
  /\ writeFailedAt' = 0
  /\ written' = << >>
  /\ lastText' = IF failedAt = "" THEN [lastText EXCEPT ![feedIdx] = text] ELSE lastText
  /\ UNCHANGED << run, now, processedSubstackDomains, attempt, store, calls, keysAtInvoke >>
  /\ UNCHANGED << backoffDelay, sanitizerVars, notifierVars, fetchVars, unitVars >>

\* main: the await of getFeedContent resumes (its catch block counts a rejected
\* call as 0 entries) and the loop goes on
MainResume ==
  /\ pc = "returned"
  /\ results' = Append(results, [feed |-> feed, count |-> IF thrown THEN 0 ELSE Len(retval)])
  /\ feedIdx' = feedIdx + 1
  /\ pc' = "main"
  /\ text' = NoText
  /\ entries' = << >>
  /\ writeIdx' = 0
  /\ retval' = << >>
  /\ thrown' = FALSE
  /\ n429' = 0
  /\ failedAt' = ""
  /\ writeFailedAt' = 0
  /\ written' = << >>
  /\ lastText' = IF failedAt = "" THEN [lastText EXCEPT ![feedIdx] = text] ELSE lastText
  /\ UNCHANGED << run, now, processedSubstackDomains, attempt, store, calls, keysAtInvoke >>
  /\ UNCHANGED << backoffDelay, sanitizerVars, notifierVars, fetchVars, unitVars >>

\* main: the loop is over, the summary is printed
Summary ==
  /\ pc = "main"
  /\ feedIdx > Len(Feeds)
  /\ pc' = "summary"
  /\ UNCHANGED << run, feedIdx, results, now, processedSubstackDomains, attempt, text,
                  entries, writeIdx, retval, thrown, store, calls, n429, failedAt,
                  writeFailedAt, lastText, keysAtInvoke, written >>
  /\ UNCHANGED << backoffDelay, sanitizerVars, notifierVars, fetchVars, unitVars >>

\* the next scheduled run: a new process, the store on disk is kept
NextRun ==
  /\ pc = "summary"
  /\ run < MaxRuns
  /\ run' = run + 1
  /\ pc' = "main"
  /\ feedIdx' = 1
  /\ results' = << >>
  /\ calls' = << >>
  /\ processedSubstackDomains' = {}
  /\ UNCHANGED << now, attempt, text, entries, writeIdx, retval, thrown, store, n429,
                  failedAt, writeFailedAt, lastText, keysAtInvoke, written >>
  /\ UNCHANGED << backoffDelay, sanitizerVars, notifierVars, fetchVars, unitVars >>

Next ==
  \/ Invoke
  \/ \E resp \in Responses : FetchResponse(resp)
  \/ Normalize
  \/ \E ok \in BOOLEAN : Mkdir(ok)
  \/ \E ok \in BOOLEAN : WriteEntry(ok)
  \/ ReturnEntries
  \/ MainResume
  \/ Summary
  \/ NextRun

Spec == Init /\ [][Next]_vars

(***************************************************************************)
(* The markup pipeline: a description goes through parseEntry and          *)
(* preprocessHtmlSnippet into the stored snippet.                          *)
(***************************************************************************)
SanitizerInit ==
  /\ CollectorInit
  /\ html \in Htmls
  /\ delivery \in {"escaped", "cdata"}
  /\ snippet = ""
  /\ sanitized = ""
  /\ spc = "input"
  /\ NotifierInit
  /\ FetchOff
  /\ UnitOff

\* getFeedContent: snippet: preprocessHtmlSnippet(entry.description) || ''
StoreSnippet ==
  /\ spc = "input"
  /\ snippet' = preprocessHtmlSnippet(extractContent(Delivered(html, delivery)))
  /\ spc' = "stored"
  /\ UNCHANGED << html, delivery, sanitized >>
  /\ UNCHANGED << collectorVars, notifierVars, fetchVars, unitVars >>

\* rss.xml.js and the pages: the stored snippet is shown through sanitizeHtml
RenderSnippet ==
  /\ spc = "stored"
  /\ sanitized' = sanitizeHtml(snippet)
  /\ spc' = "rendered"
  /\ UNCHANGED << html, delivery, snippet >>
  /\ UNCHANGED << collectorVars, notifierVars, fetchVars, unitVars >>

\* sanitizeHtml called on the markup itself
SanitizeInput ==
  /\ spc = "input"
  /\ sanitized' = sanitizeHtml(html)
  /\ spc' = "sanitized"
  /\ UNCHANGED << html, delivery, snippet >>
  /\ UNCHANGED << collectorVars, notifierVars, fetchVars, unitVars >>

SanitizerNext ==
  \/ StoreSnippet
  \/ RenderSnippet
  \/ SanitizeInput

SanitizerSpec == SanitizerInit /\ [][SanitizerNext]_vars

(***************************************************************************)
(* The Discord notifier (scripts/discord-notify.ts).  DISCORD_WEBHOOK_URL  *)
(* is set, and the ledger file can be written.                             *)
(***************************************************************************)
\* a loadPostsTracker that never finds the file
loadPostsTrackerWithoutFile == EmptyTracker

\* loadPostsTracker()
loadPostsTracker == IF ledgerFile.exists THEN ledgerFile.content ELSE EmptyTracker

\* items.sort((a, b) => new Date(b.pubDate) - new Date(a.pubDate)): newest
\* first, items of one date in the order of the feed (the sort is stable)
RECURSIVE SortNewestFirst(_)
SortNewestFirst(seq) ==
  IF seq = << >> THEN << >>
  ELSE LET newest == SetMax({seq[i].pubDate : i \in 1..Len(seq)})
           k == SetMin({i \in 1..Len(seq) : seq[i].pubDate = newest})
       IN << seq[k] >> \o SortNewestFirst(SubSeq(seq, 1, k - 1) \o SubSeq(seq, k + 1, Len(seq)))

\* the filter without the test of sentPostsSet
IsNewItemByDateOnly(item, sent, latestTimestamp) == item.pubDate > latestTimestamp

\* !sentPostsSet.has(item.link) && itemDate > latestTimestamp
IsNewItem(item, sent, latestTimestamp) ==
  item.link \notin sent /\ item.pubDate > latestTimestamp

\* notifyNewItems up to its first await: the tracker is loaded
NotifyStart ==
  /\ npc \in {"idle", "done"}
  /\ invocation < MaxInvocations
  /\ invocation' = invocation + 1
  /\ tracker' = loadPostsTracker
  /\ sentPostsSet' = loadPostsTracker.sentPosts
  /\ newLatestTimestamp' = loadPostsTracker.latestTimestamp
  /\ rssItems' = << >>
  /\ itemsToSend' = << >>
  /\ sendIdx' = 0
  /\ attempts' = << >>
  /\ npc' = "fetch"
  /\ UNCHANGED << ledgerFile, posted, reposted >>
  /\ UNCHANGED << collectorVars, sanitizerVars, fetchVars, unitVars >>

\* fetchRss throws (the response is not ok, or the request fails): the catch
\* of notifyNewItems logs it and nothing is saved
FetchRssFails ==
  /\ npc = "fetch"
  /\ npc' = "idle"
  /\ UNCHANGED << ledgerFile, invocation, tracker, rssItems, itemsToSend, sendIdx,
                  sentPostsSet, newLatestTimestamp, attempts, posted, reposted >>
  /\ UNCHANGED << collectorVars, sanitizerVars, fetchVars, unitVars >>

\* fetchRss returns the items of the feed: sort, filter, slice
FetchRss(feedOutput) ==
  /\ npc = "fetch"
  /\ rssItems' = SortNewestFirst(feedOutput)
  /\ itemsToSend' =
       Take(SelectSeq(rssItems', LAMBDA item :
                        IsNewItem(item, sentPostsSet, tracker.latestTimestamp)),
            MAX_NOTIFICATIONS)
  /\ sendIdx' = 1
  /\ npc' = "send"
  /\ UNCHANGED << ledgerFile, invocation, tracker, sentPostsSet,
                  newLatestTimestamp, attempts, posted, reposted >>
  /\ UNCHANGED << collectorVars, sanitizerVars, fetchVars, unitVars >>

\* the for loop with a sendToDiscord that lets a failed post throw: the
\* catch of notifyNewItems ends the invocation
SendToDiscordThrows(ok) ==
  /\ npc = "send"
  /\ sendIdx <= Len(itemsToSend)
  /\ LET item == itemsToSend[sendIdx]
     IN /\ attempts' = Append(attempts, [item |-> item, ok |-> ok])
        /\ posted' = IF ok THEN posted \cup {item.link} ELSE posted
        /\ reposted' = IF ok /\ item.link \in posted
                       THEN reposted \cup {item.link} ELSE reposted
        /\ sentPostsSet' = IF ok THEN sentPostsSet \cup {item.link} ELSE sentPostsSet
        /\ newLatestTimestamp' =
             IF ok /\ item.pubDate > newLatestTimestamp THEN item.pubDate
             ELSE newLatestTimestamp
  /\ sendIdx' = sendIdx + 1
  /\ npc' = IF ok THEN npc ELSE "idle"
  /\ UNCHANGED << ledgerFile, invocation, tracker, rssItems, itemsToSend >>
  /\ UNCHANGED << collectorVars, sanitizerVars, fetchVars, unitVars >>

\* one pass of the for loop: sendToDiscord(item), whose catch swallows a
\* failed post, then sentPostsSet.add and the update of newLatestTimestamp
SendToDiscord(ok) ==
  /\ npc = "send"
  /\ sendIdx <= Len(itemsToSend)
  /\ LET item == itemsToSend[sendIdx]
     IN /\ attempts' = Append(attempts, [item |-> item, ok |-> ok])
        /\ posted' = IF ok THEN posted \cup {item.link} ELSE posted
        /\ reposted' = IF ok /\ item.link \in posted
                       THEN reposted \cup {item.link} ELSE reposted
        /\ sentPostsSet' = sentPostsSet \cup {item.link}
        /\ newLatestTimestamp' =
             IF item.pubDate > newLatestTimestamp THEN item.pubDate
             ELSE newLatestTimestamp
  /\ sendIdx' = sendIdx + 1
  /\ UNCHANGED << ledgerFile, invocation, npc, tracker, rssItems, itemsToSend >>
  /\ UNCHANGED << collectorVars, sanitizerVars, fetchVars, unitVars >>

\* after the loop: savePostsTracker(updatedTracker)
SavePostsTracker ==
  /\ npc = "send"
  /\ sendIdx > Len(itemsToSend)
  /\ ledgerFile' = [exists |-> TRUE,
                    content |-> [sentPosts |-> sentPostsSet,
                                 latestTimestamp |-> newLatestTimestamp]]
  /\ npc' = "done"
  /\ UNCHANGED << invocation, tracker, rssItems, itemsToSend, sendIdx, sentPostsSet,
                  newLatestTimestamp, attempts, posted, reposted >>
  /\ UNCHANGED << collectorVars, sanitizerVars, fetchVars, unitVars >>

notifyNewItems ==
  \/ NotifyStart
  \/ FetchRssFails
  \/ \E feedOutput \in FeedOutputs : FetchRss(feedOutput)
  \/ \E ok \in BOOLEAN : SendToDiscord(ok)
  \/ SavePostsTracker

NotifierSpec == Init /\ [][notifyNewItems]_vars

(***************************************************************************)
(* One pass of the loop of getFeedXML, for every position of the loop and  *)
(* every outcome of the request.                                           *)
(***************************************************************************)
FetchInit ==
  /\ CollectorInit
  /\ SanitizerOff
  /\ NotifierInit
  /\ request \in [url : {Feeds[i].url : i \in 1..Len(Feeds)},
                   attempt : 0..maxRetries,
                   resp : AllResponses]
  /\ outcome = "pending"
  /\ UnitOff

\* const response = await fetch(url, { headers }) and the rest of the pass.
\* The call carries no signal and no timeout: the pass goes on when the server
\* has answered or the connection has failed.
FetchPass ==
  /\ outcome = "pending"
  /\ request.resp.kind # "silent"
  /\ outcome' = LoopPass(request.resp, request.attempt, request.url)
  /\ UNCHANGED request
  /\ UNCHANGED << collectorVars, sanitizerVars, notifierVars, unitVars >>

FetchSpec == FetchInit /\ [][FetchPass]_vars

(***************************************************************************)
(* The waits of getFeedXML before its first request, for the feed URLs of  *)
(* one run in their order.                                                 *)
(***************************************************************************)
\* the longest list of feeds of a run
MaxFeeds == 3

\* feed URLs: one ordinary source, two feeds of one Substack domain and one
\* feed of another (src/data/feeds.ts)
FeedUrls ==
  {"https://www.ashryan.io/rss/", "https://jtbx.substack.com/feed",
   "https://jtbx.substack.com/feed/podcast",
   "https://theunderlying.substack.com/feed"}

\* Math.floor(Math.random() * (15000 - 5000 + 1)) + 5000: the least, a middle
\* and the greatest value
InterFeedDelays == {5000, 10000, 15000}

\* the inter-feed wait without the test of processedSubstackDomains.size
interFeedDelayMsForEveryNewDomain(url, processed, random) ==
  IF isSubstackFeed(url) /\ extractSubstackDomain(url) \notin processed
  THEN random
  ELSE 0

\* const interFeedDelayMs, or 0 where getFeedXML does not wait: the wait is
\* made for a Substack domain that is not in processedSubstackDomains when
\* the set is not empty
interFeedDelayMs(url, processed, random) ==
  IF /\ isSubstackFeed(url)
     /\ extractSubstackDomain(url) \notin processed
     /\ Cardinality(processed) > 0
  THEN random
  ELSE 0

\* const delayMs = 11000, or 0 where getFeedXML does not wait
delayMs(url) == IF isSubstackFeed(url) THEN 11000 ELSE 0

DelayInit ==
  /\ CollectorInit
  /\ SanitizerOff
  /\ NotifierInit
  /\ FetchOff
  /\ urls \in UNION {[1..n -> FeedUrls] : n \in 1..MaxFeeds}
  /\ urlIdx = 1
  /\ delays = << >>
  /\ DateOff
  /\ ImageOff

\* getFeedXML up to its first request, for the next URL of the run; random is
\* what Math.random() makes of the inter-feed wait
RateLimitDelay(random) ==
  /\ urlIdx \in 1..Len(urls)
  /\ LET url == urls[urlIdx]
     IN /\ delays' = Append(delays,
                       [interFeedDelayMs |->
                          interFeedDelayMs(url, processedSubstackDomains, random),
                        delayMs |-> delayMs(url)])
        /\ processedSubstackDomains' =
             IF isSubstackFeed(url)
             THEN processedSubstackDomains \cup {extractSubstackDomain(url)}
             ELSE processedSubstackDomains
  /\ urlIdx' = urlIdx + 1
  /\ UNCHANGED urls
  /\ UNCHANGED << run, pc, feedIdx, results, now, attempt, text, entries, writeIdx,
                  retval, thrown, store, calls, n429, failedAt, writeFailedAt,
                  lastText, keysAtInvoke, written, backoffDelay >>
  /\ UNCHANGED << sanitizerVars, notifierVars, fetchVars, dateVars, imageVars >>

DelayNext == \E random \in InterFeedDelays : RateLimitDelay(random)

DelaySpec == DelayInit /\ [][DelayNext]_vars

(***************************************************************************)
(* parseDate applied to a date text and then to its own result.            *)
(***************************************************************************)
\* the latest instant a date text denotes
MaxInstant == 4

\* the latest instant of the clock
MaxClock == 3

\* date texts an entry can carry
DateTexts ==
  {EmptyDate, GarbageDate}
    \cup {Rfc2822(t) : t \in 0..MaxInstant}
    \cup {ToISOString(t) : t \in 0..MaxInstant}

DateInit ==
  /\ CollectorInit
  /\ SanitizerOff
  /\ NotifierInit
  /\ FetchOff
  /\ DelayOff
  /\ dateStr \in DateTexts
  /\ dateNow \in 0..MaxClock
  /\ parsed = << >>
  /\ ImageOff

\* parseDate is called: for dateStr first, then for what it returned
ParseDate ==
  /\ Len(parsed) < 2
  /\ parsed' = Append(parsed,
                 parseDate(IF parsed = << >> THEN dateStr ELSE parsed[Len(parsed)],
                           dateNow))
  /\ UNCHANGED << dateStr, dateNow >>
  /\ UNCHANGED << collectorVars, sanitizerVars, notifierVars, fetchVars, delayVars, imageVars >>

\* time passes
Tick ==
  /\ dateNow < MaxClock
  /\ dateNow' = dateNow + 1
  /\ UNCHANGED << dateStr, parsed >>
  /\ UNCHANGED << collectorVars, sanitizerVars, notifierVars, fetchVars, delayVars, imageVars >>

DateNext == ParseDate \/ Tick

DateSpec == DateInit /\ [][DateNext]_vars

(***************************************************************************)
(* parseEntry on item blocks that carry images in several places.          *)
(***************************************************************************)
\* how many elements an item block is made of, at most
MaxPieces == 3

\* the elements of an item block that can carry an image, an enclosure that
\* is no image, and a description with an img tag, delivered with entities
\* and in a CDATA section
MediaContent == "<media:content url=\"http://m.io/c.jpg\" medium=\"image\"/>"
MediaThumbnail == "<media:thumbnail url=\"http://m.io/t.jpg\"/>"
ImageEnclosure == "<enclosure url=\"http://m.io/e.jpg\" length=\"1\" type=\"image/jpeg\"/>"
AudioEnclosure == "<enclosure url=\"http://m.io/e.mp3\" length=\"1\" type=\"audio/mpeg\"/>"
ImageTag == "<image><url>http://m.io/i.jpg</url></image>"
ItunesImage == "<itunes:image href=\"http://m.io/p.jpg\"/>"
EscapedDescription ==
  "<description>A &lt;img alt=&quot;a&quot; src=&quot;http://m.io/d.jpg&quot;&gt; "
    \o "&lt;img src=&quot;http://m.io/d2.jpg&quot;&gt;</description>"
CdataDescription == "<description><![CDATA[B <img src=\"http://m.io/x.jpg\">]]></description>"

EntryPieces ==
  {MediaContent, MediaThumbnail, ImageEnclosure, AudioEnclosure, ImageTag, ItunesImage,
   EscapedDescription, CdataDescription}

\* the item block: what the item pattern of getFeedContent captures
EntryXml(pieces) ==
  LET Piece(i) == pieces[i]
  IN "<title>T</title>" \o ConcatRange(Piece, 1, Len(pieces))

ImageInit ==
  /\ CollectorInit
  /\ SanitizerOff
  /\ NotifierInit
  /\ FetchOff
  /\ DelayOff
  /\ DateOff
  /\ entryPieces \in
       {ps \in UNION {[1..n -> EntryPieces] : n \in 1..MaxPieces} :
          \A i, j \in DOMAIN ps : i # j => ps[i] # ps[j]}
  /\ entryImage = "pending"

\* parseEntry is called for the item block
ParseEntryImage ==
  /\ entryImage = "pending"
  /\ entryImage' = imageUrl(EntryXml(entryPieces))
  /\ UNCHANGED entryPieces
  /\ UNCHANGED << collectorVars, sanitizerVars, notifierVars, fetchVars, delayVars,
                  dateVars >>

ImageSpec == ImageInit /\ [][ParseEntryImage]_vars

(***************************************************************************)
(* Properties.                                                             *)
(***************************************************************************)
Range(seq) == {seq[i] : i \in DOMAIN seq}

\* the call of getFeedContent under way has normalised its document
Normalized == pc \in {"mkdir", "write", "returned"}

\* the document has just been normalised: entries and text keep these values
\* until the call is over
JustNormalized == pc = "mkdir"

\* the call of getFeedContent has returned its entries, nothing having thrown
Completed == pc = "returned" /\ failedAt = ""

\* what parseEntry extracts from each item block of the document
Parsed == [i \in 1..Len(text.items) |-> parseEntry(text.items[i], text.root = "rss")]

\* something readable was extracted for the title or for the description
Readable(e) == e.title # "" \/ e.description # ""

\* the extracts of the readable item blocks, in document order
ReadableItems == SelectSeq(Parsed, Readable)

\* the records the current call has written (the clock of the model ticks once per call)
WrittenNow == {f \in DOMAIN store : store[f].lastFetched = ToISOString(now)
                                     /\ store[f].feedSource = feed.url}

\* C1: the call of getFeedContent never rejects; what it resolves to is a list
\* of entries it normalised, and the empty list whenever getFeedXML threw
\* (the request failed or the body is no feed document).
C1_NeverRejects ==
  /\ ~thrown
  /\ pc = "returned" =>
       /\ \A i \in 1..Len(retval) : retval[i] \in Range(entries)
       /\ failedAt = "getFeedXML" => retval = << >>

\* a call whose fetch failed after a retry has resolved to the empty list
C1_Witness ==
  pc = "returned" /\ failedAt = "getFeedXML" /\ attempt = 0 /\ n429 > 0
  /\ retval = << >> /\ ~thrown

C3_ThreeTimes429 ==
  (pc = "returned" /\ n429 >= 3) => (retval = << >> /\ ~thrown)

\* C3: a call all of whose four requests (the first and the three retries) are
\* answered HTTP 429 resolves to no entries, and does not reject.
C3_FourTimes429 ==
  (pc = "returned" /\ n429 >= 4) => (retval = << >> /\ ~thrown)

\* a call that has returned after four HTTP 429 responses
C3_Witness == pc = "returned" /\ n429 = 4 /\ failedAt = "getFeedXML"

\* C4: no entry, normalised or stored, has a pubDate later than the instant at
\* which it was processed.
C4_NoFuturePubDate ==
  /\ \A i \in 1..Len(entries) : entries[i].pubDate.t <= entries[i].lastFetched.t
  /\ \A f \in DOMAIN store : store[f].pubDate.t <= store[f].lastFetched.t

\* C5: the entries of a call are the readable item blocks of the document, in
\* order, one each: a block is left out exactly when its title and its
\* description are both empty.  The call writes records of those entries only,
\* and when nothing threw it returns them all, each with a record in the store.
C5_SkipsExactlyUnreadable ==
  /\ JustNormalized =>
       LET kept == ReadableItems
       IN /\ Len(entries) = Len(kept)
          /\ \A i \in 1..Len(entries) :
               /\ entries[i].link = kept[i].link
               /\ kept[i].title # "" => entries[i].title = kept[i].title
  /\ Normalized => \A f \in WrittenNow : store[f] \in Range(entries)
  /\ Completed =>
       /\ retval = entries
       /\ Len(written) = Len(entries)
       /\ \A i \in 1..Len(written) : written[i] \in WrittenNow

\* a completed call that returned an entry without a source title and left an
\* unreadable block out
C5_Witness ==
  /\ Completed
  /\ Len(retval) < Len(text.items)
  /\ \E i \in 1..Len(retval) :
       /\ ReadableItems[i].title = ""
       /\ written[i] \in DOMAIN store

\* C6: no entry and no record has an empty title: the title is the source
\* title when there is one, else the title generated from the description when
\* that is not empty, else 'Untitled Post'.
C6_TitleNeverEmpty ==
  /\ \A f \in DOMAIN store : store[f].title # ""
  /\ \A i \in 1..Len(entries) : entries[i].title # ""
  /\ JustNormalized =>
       LET kept == ReadableItems
       IN /\ Len(entries) = Len(kept)
          /\ \A i \in 1..Len(entries) :
               LET e == kept[i]
                   generated == generateTitleFromDescription(e.description)
               IN /\ e.title # "" => entries[i].title = e.title
                  /\ (e.title = "" /\ generated # "") => entries[i].title = generated
                  /\ (e.title = "" /\ generated = "") => entries[i].title = "Untitled Post"

\* the store holds a record titled from its description, truncated, and one
\* titled with the placeholder
C6_Witness ==
  /\ \E f \in DOMAIN store :
       store[f].title = "Hello world this is a long enough description to..."
  /\ \E f \in DOMAIN store : store[f].title = "Untitled Post"

\* C7: when a call completes on the document the feed's previous completed call
\* processed, the store has the file names it had when the call began, and the
\* record of each entry carries the lastFetched of this call.
C7_ReprocessingIsIdempotent ==
  (Completed /\ lastText[feedIdx] = text) =>
    /\ DOMAIN store = keysAtInvoke
    /\ Len(written) = Len(entries)
    /\ \A i \in 1..Len(written) :
         /\ written[i] \in DOMAIN store
         /\ store[written[i]].lastFetched = ToISOString(now)

\* the second of two completed calls on the same document, with two entries
C7_Witness ==
  Completed /\ lastText[feedIdx] = text /\ Len(entries) >= 2 /\ run = 2

\* what C8 takes for the identity of an entry
Identity(entry, fd) == << IF entry.link # "" THEN entry.link ELSE fd.url, entry.title >>

\* C8: entries of a document that differ in link (or source url) or in title are
\* saved under different file names, so that a completed call leaves each of its
\* entries in the store.
C8_DistinctFilenames ==
  Completed =>
    /\ \A i, j \in 1..Len(written) :
         Identity(entries[i], feed) # Identity(entries[j], feed) => written[i] # written[j]
    /\ \A i \in 1..Len(written) : store[written[i]] = entries[i]

\* C9: when the write of one entry fails, the call returns the other entries
\* of the document, and the record of each of them is written.
C9_WriteFailureDropsOneEntry ==
  (pc = "returned" /\ writeFailedAt # 0) =>
    /\ retval = SubSeq(entries, 1, writeFailedAt - 1)
                  \o SubSeq(entries, writeFailedAt + 1, Len(entries))
    /\ \A i \in 1..Len(entries) :
         i # writeFailedAt => EntryFilename(entries[i], feed) \in WrittenNow

\* C10: after a completed call for a source, every record of the store with
\* that feedSource is one of the entries the call produced.
C10_StaleRecordsPruned ==
  Completed =>
    \A f \in DOMAIN store : store[f].feedSource = feed.url => store[f] \in Range(entries)

\* the text has an element called name (a start tag, in any case)
HasElement(s, name) ==
  LET low == ToLowerCase(s)
      n == Len(name)
  IN \E i \in 1..(Len(s) - n) :
       /\ SubSeq(low, i, i + n) = "<" \o name
       /\ (i + n + 1 > Len(s) \/ ~IsWordChar(CharAt(s, i + n + 1)))

\* the start tags of the text: from a '<' that a letter follows to the next '>'
StartTags(s) ==
  {<<i, IndexFrom(s, ">", i)>> :
     i \in {k \in 1..(Len(s) - 1) :
              /\ CharAt(s, k) = "<"
              /\ CharAt(s, k + 1) \in WordChars
              /\ IndexFrom(s, ">", k) # 0}}

\* a start tag of the text has an attribute called name (in any case)
HasAttribute(s, name) ==
  LET low == ToLowerCase(s)
      n == Len(name)
  IN \E t \in StartTags(s) :
       \E k \in (t[1] + 1)..(t[2] - n - 1) :
         /\ IsSpace(CharAt(s, k)) \/ CharAt(s, k) \in QuoteChars \/ CharAt(s, k) = "/"
         /\ SubSeq(low, k + 1, k + n + 1) = name \o "="

\* a start tag of the text has an attribute whose name begins with 'on'
HasEventHandler(s) ==
  LET low == ToLowerCase(s)
  IN \E t \in StartTags(s) :
       \E k \in (t[1] + 1)..(t[2] - 4) :
         /\ IsSpace(CharAt(s, k)) \/ CharAt(s, k) \in QuoteChars \/ CharAt(s, k) = "/"
         /\ SubSeq(low, k + 1, k + 2) = "on"
         /\ WordEnd(s, k) > k + 2
         /\ WordEnd(s, k) < t[2]
         /\ CharAt(s, WordEnd(s, k) + 1) = "="

\* C11: the snippet stored for an entry has no script, style or iframe element,
\* no style or class attribute and no event-handler attribute, whatever the
\* description the feed delivered.
C11_SnippetIsSanitized ==
  spc = "stored" =>
    /\ ~HasElement(snippet, "script")
    /\ ~HasElement(snippet, "style")
    /\ ~HasElement(snippet, "iframe")
    /\ ~HasAttribute(snippet, "style")
    /\ ~HasAttribute(snippet, "class")
    /\ ~HasEventHandler(snippet)

\* what sanitizeHtml was called with, once it has been called
SanitizerArgument == IF spc = "rendered" THEN snippet ELSE html

SanitizerReturned == spc \in {"sanitized", "rendered"}

WrapperOpen == "<div class=\"sanitized-content\">"

WrapperClose == "</div>"

IsWrapped(s) ==
  /\ Len(s) >= Len(WrapperOpen) + Len(WrapperClose)
  /\ StartsWith(s, WrapperOpen)
  /\ EndsWith(s, WrapperClose)

\* the content inside the wrapper
Inner(s) == SubSeq(s, Len(WrapperOpen) + 1, Len(s) - Len(WrapperClose))

\* C12: sanitizeHtml returns "" for the empty string and, for any other input,
\* the wrapper <div class="sanitized-content">...</div> around content that has
\* no script element and no style, class or onerror attribute.
C12_SanitizeHtmlWrapsCleanContent ==
  SanitizerReturned =>
    IF SanitizerArgument = "" THEN sanitized = ""
    ELSE /\ IsWrapped(sanitized)
         /\ ~HasElement(Inner(sanitized), "script")
         /\ ~HasAttribute(Inner(sanitized), "style")
         /\ ~HasAttribute(Inner(sanitized), "class")
         /\ ~HasAttribute(Inner(sanitized), "onerror")

\* sanitizeHtml has returned for an input with a script element, a class
\* attribute without quotes and an onerror attribute
C12_Witness ==
  /\ SanitizerReturned
  /\ HasElement(SanitizerArgument, "script") \/ HasAttribute(SanitizerArgument, "style")
  /\ HasAttribute(SanitizerArgument, "class")
  /\ Includes(SanitizerArgument, "class=k")
  /\ IsWrapped(sanitized)

\* the markup is made of allow-listed fragments only
AllowListedInput ==
  \E f \in AllowListedFragments, g \in AllowListedFragments \cup {""} : html = f \o g

\* C13: markup built only from allow-listed tags and attributes comes out of
\* sanitizeHtml as it went in, inside the wrapper.
C13_AllowListedPassesUnchanged ==
  spc = "sanitized" /\ AllowListedInput =>
    sanitized = WrapperOpen \o html \o WrapperClose

\* the saved ledger
Ledger == ledgerFile.content

\* the invocation under way has saved the ledger
Saved == npc = "done"

\* the entries of the fetched feed that are unsent and newer than the ledger's
\* latestTimestamp, by the ledger as loaded
Unsent ==
  {rssItems[i] : i \in {k \in 1..Len(rssItems) :
                          /\ rssItems[k].link \notin tracker.sentPosts
                          /\ rssItems[k].pubDate > tracker.latestTimestamp}}

\* the entries handed to sendToDiscord in this invocation, and those of them
\* that the webhook accepted
Attempted == {attempts[k].item : k \in 1..Len(attempts)}

Accepted == {attempts[k].item : k \in {j \in 1..Len(attempts) : attempts[j].ok}}

\* no two entries of the fetched feed share a link
DistinctLinks ==
  \A i, j \in 1..Len(rssItems) : rssItems[i].link = rssItems[j].link => i = j

MaxOf(S, floor) == IF S = {} THEN floor ELSE SetMax(S \cup {floor})

\* C14: an invocation that finds n unsent newer entries (each with a link of
\* its own) sends min(n, 5) of them, the newest by pubDate; the saved
\* latestTimestamp is the pubDate of the newest of them, and the links of the
\* others are not in the saved sentPosts.
C14_SendsNewestFive ==
  Saved /\ DistinctLinks =>
    /\ Attempted \subseteq Unsent
    /\ Len(attempts) = Min(Cardinality(Unsent), 5)
    /\ Cardinality(Attempted) = Len(attempts)
    /\ \A x \in Attempted : \A y \in Unsent \ Attempted : x.pubDate > y.pubDate
    /\ \A k \in 1..(Len(attempts) - 1) :
         attempts[k].item.pubDate >= attempts[k + 1].item.pubDate
    /\ Unsent # {} => Ledger.latestTimestamp = SetMax({x.pubDate : x \in Attempted})
    /\ \A y \in Unsent \ Attempted : y.link \notin Ledger.sentPosts

\* an invocation found seven unsent entries, sent five and saved
C14_Witness ==
  /\ Saved
  /\ DistinctLinks
  /\ Cardinality(Unsent) = 7
  /\ Len(attempts) = 5
  /\ \A k \in 1..Len(attempts) : attempts[k].ok

\* C15: an entry is handed to the webhook only if its link is not in the
\* sentPosts of the ledger as loaded and its pubDate is after the loaded
\* latestTimestamp.
C15_PostsOnlyUnsentAndNewer ==
  \A k \in 1..Len(attempts) :
    /\ attempts[k].item.link \notin tracker.sentPosts
    /\ attempts[k].item.pubDate > tracker.latestTimestamp

\* an invocation with a ledger that lists links has posted, while the feed
\* held a listed entry with a newer date and an unlisted entry not newer
C15_Witness ==
  /\ Len(attempts) > 0
  /\ \E i \in 1..Len(rssItems) :
       /\ rssItems[i].link \in tracker.sentPosts
       /\ rssItems[i].pubDate > tracker.latestTimestamp
  /\ \E i \in 1..Len(rssItems) :
       /\ rssItems[i].link \notin tracker.sentPosts
       /\ rssItems[i].pubDate <= tracker.latestTimestamp

\* C16: the saved ledger lists the links loaded plus the links the webhook
\* accepted in this invocation, and its latestTimestamp is the maximum of the
\* loaded one and the pubDates of the accepted posts.
C16_LedgerRecordsWhatWasSent ==
  Saved =>
    /\ Ledger.sentPosts = tracker.sentPosts \cup {x.link : x \in Accepted}
    /\ Ledger.latestTimestamp =
         MaxOf({x.pubDate : x \in Accepted}, tracker.latestTimestamp)

\* C17: a post that fails does not end the invocation: every candidate is
\* still handed to the webhook in turn, the ledger is saved, and it lists the
\* link of every post that was accepted.
C17_FailureDoesNotAbortBatch ==
  /\ npc = "idle" => attempts = << >>
  /\ npc \in {"send", "done"} =>
       /\ Len(attempts) = Min(sendIdx - 1, Len(itemsToSend))
       /\ \A k \in 1..Len(attempts) : attempts[k].item = itemsToSend[k]
  /\ Saved =>
       /\ Len(attempts) = Len(itemsToSend)
       /\ ledgerFile.exists
       /\ \A k \in 1..Len(attempts) :
            attempts[k].ok => attempts[k].item.link \in Ledger.sentPosts

\* a saved invocation in which a post was accepted, the next failed and the
\* one after was accepted
C17_Witness ==
  /\ Saved
  /\ \E k \in 1..(Len(attempts) - 2) :
       attempts[k].ok /\ ~attempts[k + 1].ok /\ attempts[k + 2].ok

\* C18: the webhook never accepts a second post of a link.
C18_NoLinkPostedTwice == reposted = {}

\* the response is one getFeedXML has to refuse: a status outside 200..299
\* other than 429, or a body that is too short, holds a challenge marker or
\* lacks the mark of a feed
RefusedResponse(resp) ==
  /\ resp.kind = "response"
  /\ resp.status # 429
  /\ \/ ~(resp.status >= 200 /\ resp.status <= 299)
     \/ resp.body.short
     \/ resp.body.challenge
     \/ resp.body.root \notin {"rss", "feed"}

\* C19: a response with a status outside 200..299 other than 429, or with a
\* body that is too short, holds a challenge marker or lacks the mark of a
\* feed, never makes getFeedXML return: its text is not handed to the parser.
C19_RefusedResponseIsNotReturned ==
  outcome # "pending" /\ outcome # "off" /\ RefusedResponse(request.resp) =>
    outcome # "return"

\* C20: a request never stays pending: whatever the server does, the pass of
\* the loop that made the request goes on (and ends in the catch block when
\* no answer came).
C20_RequestNeverHangs ==
  outcome = "pending" => ENABLED FetchPass

\* a call of getFeedContent is under way
InCall == pc \in {"fetch", "parse", "mkdir", "write", "returned"}

\* C21: one source at a time: while a call of getFeedContent is under way it is
\* the only one without a result, it is the call for the feed the loop is at,
\* and between calls every call made has its result.
C21_OneSourceAtATime ==
  /\ InCall =>
       /\ Len(calls) = Len(results) + 1
       /\ calls[Len(calls)] = feedIdx
  /\ ~InCall => Len(calls) = Len(results)
  /\ \A k \in 1..Len(results) : results[k].feed = Feeds[calls[k]]

\* the request for the second source is out, after the call for the first
\* source has returned its entries and written their records
C21_Witness ==
  /\ pc = "fetch"
  /\ feedIdx = 2
  /\ Len(results) = 1
  /\ results[1].count > 0
  /\ DOMAIN store # {}

\* the Substack domains of the calls of getFeedXML before call k of the run
DomainsBefore(k) ==
  {extractSubstackDomain(urls[j]) : j \in {i \in 1..(k - 1) : isSubstackFeed(urls[i])}}

\* C22 as stated: the fixed wait is made before every request to a Substack
\* source, and the randomized wait is made exactly for the calls whose
\* Substack domain has not been seen before in the run
C22_RandomDelayForEveryNewDomain ==
  \A k \in DOMAIN delays :
    isSubstackFeed(urls[k]) =>
      /\ delays[k].delayMs = 11000
      /\ delays[k].interFeedDelayMs > 0
           <=> extractSubstackDomain(urls[k]) \notin DomainsBefore(k)

\* C22, amended: the fixed wait of 11 s is made before every request to a
\* Substack source; the randomized wait of 5 to 15 s is made exactly for the
\* calls whose Substack domain has not been seen before in the run while
\* another Substack domain has, so the first Substack domain of a run gets
\* the fixed wait alone; a source that is not Substack waits for neither
C22_RandomDelayBetweenDomains ==
  \A k \in DOMAIN delays :
    /\ isSubstackFeed(urls[k]) =>
         /\ delays[k].delayMs = 11000
         /\ delays[k].interFeedDelayMs \in {0} \cup 5000..15000
         /\ delays[k].interFeedDelayMs > 0
              <=> /\ extractSubstackDomain(urls[k]) \notin DomainsBefore(k)
                  /\ DomainsBefore(k) # {}
    /\ ~isSubstackFeed(urls[k]) =>
         delays[k].delayMs = 0 /\ delays[k].interFeedDelayMs = 0

\* a run has called getFeedXML for a first Substack domain (fixed wait
\* alone), for a second one (both waits) and for the first one again (fixed
\* wait alone)
C22_Witness ==
  /\ Len(delays) = 3
  /\ \A k \in 1..3 : isSubstackFeed(urls[k])
  /\ extractSubstackDomain(urls[2]) # extractSubstackDomain(urls[1])
  /\ extractSubstackDomain(urls[3]) = extractSubstackDomain(urls[1])
  /\ delays[1].interFeedDelayMs = 0
  /\ delays[2].interFeedDelayMs > 0
  /\ delays[3].interFeedDelayMs = 0

\* C23: getFeedXML makes at most maxRetries + 1 = 4 requests in a call, whatever
\* the responses and network errors are, and then returns the body or throws;
\* a retry after HTTP 429 and a retry after a network error advance the same
\* attempt counter; the backoff wait before retry n (from 0) is
\* min(2^n * 30 s, 300 s)
C23_AtMostFourRequests ==
  [][pc = "fetch" =>
       /\ attempt + 1 <= 4
       /\ n429 <= attempt
       /\ backoffDelay =
            IF attempt = 0 THEN 0 ELSE Min(2 ^ (attempt - 1) * 30000, 300000)
       /\ pc' = "fetch" => attempt' = attempt + 1
       /\ pc' # "fetch" =>
            \/ pc' = "parse" /\ IsFeedText(text')
            \/ pc' = "returned" /\ failedAt' = "getFeedXML" /\ retval' = << >>]_vars

\* the fourth request of a call is under way after one HTTP 429 and two
\* errors of another kind, each retried after its backoff wait
C23_Witness ==
  /\ pc = "fetch"
  /\ attempt = 3
  /\ n429 = 1
  /\ backoffDelay = 120000

\* C24: a call of getFeedContent whose fetch fails resolves to zero entries
\* without having created, overwritten or removed a record: no step of the
\* call up to the failure and none after it changes the store, no file was
\* written, and main records a count of 0 for the source. (Parsing does not
\* fail: parseEntry catches its own errors and parseDate replaces a date it
\* cannot read.)
C24_FailedFetchLeavesStore ==
  [][/\ pc = "fetch" => store' = store
     /\ failedAt' = "getFeedXML" =>
          /\ pc' = "returned"
          /\ retval' = << >>
          /\ ~thrown'
          /\ written' = << >>
          /\ store' = store
          /\ DOMAIN store' = keysAtInvoke'
     /\ failedAt = "getFeedXML" =>
          /\ pc' = "main"
          /\ store' = store
          /\ results'[Len(results')] = [feed |-> feed, count |-> 0]]_vars

\* the fetch of the second source has failed while the store holds the
\* records of the first source and records of an earlier run
C24_Witness ==
  /\ run = 2
  /\ feedIdx = 2
  /\ pc = "returned"
  /\ failedAt = "getFeedXML"
  /\ results # << >>
  /\ results[1].count > 0
  /\ \E f \in DOMAIN store : store[f].feedSource = Feeds[2].url

C26_RetriesOnlyRateLimitOrNetworkError ==
  LET resp == request.resp
  IN /\ outcome = "retry" =>
          \/ resp.kind = "response" /\ resp.status = 429
          \/ resp.kind = "network" /\ isSubstackFeed(request.url)
     /\ (/\ outcome # "pending"
         /\ resp.kind = "response"
         /\ resp.status # 429
         /\ ~ResponseOk(resp) \/ ~IsFeedText(resp.body)) => outcome = "throw"

\* the item block has the element
HasPiece(piece) == \E i \in DOMAIN entryPieces : entryPieces[i] = piece

\* the first description element of the item block
FirstDescription ==
  LET at == {i \in DOMAIN entryPieces :
               entryPieces[i] \in {EscapedDescription, CdataDescription}}
  IN IF at = {} THEN "" ELSE entryPieces[SetMin(at)]

\* C27: the image URL of an entry is the first that is there of: the url of
\* media:content, the url of media:thumbnail, the url of an enclosure of an
\* image type, the url element nested in image, the href of itunes:image; when
\* none is there, the src of the first img tag of the extracted description
\* (an img tag survives the extraction only when the feed delivers it with
\* entities); and "" when nothing matches
C27_ImageUrlByPriority ==
  entryImage # "pending" =>
    entryImage =
      IF HasPiece(MediaContent) THEN "http://m.io/c.jpg"
      ELSE IF HasPiece(MediaThumbnail) THEN "http://m.io/t.jpg"
      ELSE IF HasPiece(ImageEnclosure) THEN "http://m.io/e.jpg"
      ELSE IF HasPiece(ImageTag) THEN "http://m.io/i.jpg"
      ELSE IF HasPiece(ItunesImage) THEN "http://m.io/p.jpg"
      ELSE IF FirstDescription = EscapedDescription THEN "http://m.io/d.jpg"
      ELSE ""

\* an entry whose description holds an img tag and whose itunes:image and
\* image-typed enclosure come after it in the block: the enclosure is taken
C27_Witness ==
  /\ entryPieces = << EscapedDescription, ItunesImage, ImageEnclosure >>
  /\ entryImage = "http://m.io/e.jpg"

\* the ledger a first invocation saves when it finds the seven entries of
\* FeedSeven unsent and every post succeeds: the five newest are sent
LedgerAfterFirstBatch ==
  [sentPosts |-> {FeedSeven[k].link : k \in 1..MAX_NOTIFICATIONS},
   latestTimestamp |-> FeedSeven[1].pubDate]

\* C28: with the feed unchanged and every post succeeding, the entries that
\* were unsent and newer than latestTimestamp at the first invocation and were
\* cut off by the maximum of five are sent by a later invocation: once the
\* invocation after the first batch has saved, every entry of the feed has
\* been posted
C28_CutOffEntriesAreSentLater ==
  (/\ Saved
   /\ invocation >= 2
   /\ rssItems = FeedSeven
   /\ tracker = LedgerAfterFirstBatch
   /\ tracker.sentPosts \subseteq posted
   /\ \A k \in 1..Len(attempts) : attempts[k].ok)
    => \A i \in 1..Len(rssItems) : rssItems[i].link \in posted

\* C29: the call for one source leaves every record of another source in the
\* store as it is: a step of the call neither removes nor overwrites a record
\* whose feedSource is not the URL of the feed being processed
C29_OtherSourcesRecordsKept ==
  [][InCall =>
       \A f \in DOMAIN store :
         store[f].feedSource # feed.url =>
           f \in DOMAIN store' /\ store'[f] = store[f]]_vars

\* C30: the ledger only grows: no step of the notifier takes a link out of
\* the saved sentPosts, moves the saved latestTimestamp backwards or removes
\* the file; and what an invocation saves holds every link and is not older
\* than the timestamp of the ledger it loaded
C30_LedgerOnlyGrows ==
  [][/\ Ledger.sentPosts \subseteq Ledger'.sentPosts
     /\ Ledger.latestTimestamp <= Ledger'.latestTimestamp
     /\ ledgerFile.exists => ledgerFile'.exists
     /\ Saved' =>
          /\ tracker'.sentPosts \subseteq Ledger'.sentPosts
          /\ tracker'.latestTimestamp <= Ledger'.latestTimestamp]_vars

\* a second invocation has loaded a ledger with links, sent newer entries and
\* saved a ledger with more links and a later timestamp
C30_Witness ==
  /\ Saved
  /\ invocation = 2
  /\ tracker.sentPosts # {}
  /\ tracker.sentPosts \subseteq Ledger.sentPosts
  /\ tracker.sentPosts # Ledger.sentPosts
  /\ Ledger.latestTimestamp > tracker.latestTimestamp

====
